---- MODULE Spec2Model ----
(***************************************************************************)
(* Tool decoration chain (CompilerWrapper, Linker) and tool registry of    *)
(* fab.  Tools are objects on a heap (a sequence, an object's id is its    *)
(* index, 0 is the null reference); a wrapper holds a reference to the     *)
(* compiler it wraps.  Names are sequences of name parts, so that          *)
(* f"linker-{name}" is <<"linker">> \o name.                               *)
(***************************************************************************)
EXTENDS Integers, Sequences, FiniteSets, TLC

VARIABLES
    heap,                \* object id -> the object's fields
    env,                 \* os.environ and what the installed executables do
    last,                \* outcome of the last finished call
    pc,                  \* worker -> position inside compile_file
    call,                \* worker -> arguments of its compile_file call
    orig_compiler_name,  \* worker -> local of compile_file
    ran,                 \* worker -> executable its delegated compile ran
    repo,                \* ToolRepository: category -> list of tools
    tr,                  \* fab.tools.ToolRepository: _singleton, instances
    th,                  \* thread -> position inside ToolRepository()
    nt,                  \* fab.newtools.ToolRepository: _singleton, instances
    pp,                  \* PreProcessor.run: items, file system, artefact store
    psyclone,            \* the Psyclone tool: _is_available, _version
    held                 \* the list a caller of a Linker holds on to

vars == <<heap, env, last, pc, call, orig_compiler_name, ran, repo, tr, th,
          nt, pp, psyclone, held>>

\* ------------------------------------------------------------------------
\* Bounds
\* ------------------------------------------------------------------------
MaxFlags == 1        \* total number of flags held by all tools' own lists
MaxRegion == 1       \* length of pre_lib_flags / post_lib_flags
MaxLibs == 2         \* libraries requested by one link call
MaxRepo == 5         \* registry entries before an add_tool call
MaxLinkers == 1      \* Linker objects constructed outside the registry

\* ------------------------------------------------------------------------
\* Values
\* ------------------------------------------------------------------------
None == "None"

C_COMPILER == "C_COMPILER"
FORTRAN_COMPILER == "FORTRAN_COMPILER"
LINKER == "LINKER"
PREPROCESSOR == "C_PREPROCESSOR"
Category == {C_COMPILER, FORTRAN_COMPILER, LINKER, PREPROCESSOR}

\* Category.is_compiler
is_compiler_category(c) == c \in {C_COMPILER, FORTRAN_COMPILER}

\* The objects every run starts with: Gcc(), Gfortran(), Mpicc(gcc),
\* CrayCc(gcc), Mpif90(gfortran).
gcc == 1
gfortran == 2
mpicc == 3
craycc == 4
mpif90 == 5
BaseIds == {gcc, gfortran}
Workers == {"w1", "w2"}
Threads == {"t1", "t2"}

WrapperClasses == {"CompilerWrapper", "Mpicc", "Mpif90", "CrayCc", "Linker"}

Versions == {1, 2}

Libs == {"L1", "L2"}
LibFlagLists == {<<"-l1">>, <<"-l2">>}
ToolFlags == {"-x"}
Files == {"ab.o", "b.o"}

\* ------------------------------------------------------------------------
\* Objects
\* ------------------------------------------------------------------------
NoLibFlags == [l \in {} |-> <<>>]

\* Tool.__init__ / Compiler.__init__: the fields every tool carries.
Tool(cls, name, exec_name, category, suite, mpi, openmp_flag) ==
    [cls |-> cls, name |-> name, exec_name |-> exec_name,
     _category |-> category, _suite |-> suite, _mpi |-> mpi,
     _openmp_flag |-> openmp_flag,
     _flags |-> <<>>, _is_available |-> None, _version |-> 0,
     _compiler |-> 0, _module_output_path |-> None,
     _output_flag |-> None, _lib_flags |-> NoLibFlags,
     _pre_lib_flags |-> <<>>, _post_lib_flags |-> <<>>]

Gcc == Tool("CCompiler", <<"gcc">>, "gcc", C_COMPILER, "gnu", FALSE,
            "-fopenmp")
Gfortran == Tool("FortranCompiler", <<"gfortran">>, "gfortran",
                 FORTRAN_COMPILER, "gnu", FALSE, "-fopenmp")

IsWrapper(o) == o.cls \in WrapperClasses

\* Read-through properties of CompilerWrapper; a plain tool returns its own
\* field.
RECURSIVE category(_, _)
category(h, t) ==
    IF IsWrapper(h[t]) THEN category(h, h[t]._compiler) ELSE h[t]._category

RECURSIVE suite(_, _)
suite(h, t) ==
    IF IsWrapper(h[t]) THEN suite(h, h[t]._compiler) ELSE h[t]._suite

\* A wrapper that keeps a private copy of the flags instead of reading the
\* wrapped compiler's.
flags_own(h, t) == h[t]._flags

RECURSIVE flags(_, _)
flags(h, t) ==
    IF IsWrapper(h[t]) THEN flags(h, h[t]._compiler) ELSE h[t]._flags

mpi(h, t) == h[t]._mpi

\* CompilerWrapper.__init__: category and suite handed to the base class are
\* those of the wrapped compiler.
CompilerWrapper(h, cls, name, exec_name, compiler, is_mpi) ==
    [Tool(cls, name, exec_name, category(h, compiler), suite(h, compiler),
          is_mpi, "") EXCEPT !._compiler = compiler]

Mpicc(h, compiler) ==
    CompilerWrapper(h, "Mpicc", <<"mpicc">> \o h[compiler].name, "mpicc",
                    compiler, TRUE)

Mpif90(h, compiler) ==
    CompilerWrapper(h, "Mpif90", <<"mpif90">> \o h[compiler].name, "mpif90",
                    compiler, TRUE)

\* os.getenv(NAME, "").split(): whitespace items are dropped.
split(s) == SelectSeq(s, LAMBDA x : x # " ")

\* Linker.__init__
Linker(h, e, compiler) ==
    [CompilerWrapper(h, "Linker", <<"linker">> \o h[compiler].name,
                     h[compiler].exec_name, compiler, mpi(h, compiler))
       EXCEPT !._output_flag = "-o",
              !._flags = split(e.LDFLAGS),
              !._lib_flags = NoLibFlags,
              !._pre_lib_flags = <<>>,
              !._post_lib_flags = <<>>]

NoCall == [wrapper |-> 0, syntax_only |-> None, rc |-> 0]

\* A thread that has not called ToolRepository() yet.
NoThread == [pc |-> "idle", self |-> 0]

\* What a finished call leaves behind: the exception it raised (None when it
\* returned), the command line it spawned (<<>> when it spawned nothing), its
\* return value and its arguments.
Result(op, tool, raised, command, value, args) ==
    [op |-> op, tool |-> tool, raised |-> raised, command |-> command,
     value |-> value, args |-> args]

NoResult == Result("none", 0, None, <<>>, None, <<>>)

\* files = self.source_getter(artefact_store): the items of a run, in the
\* order they are submitted
Items == <<"a.F90", "b.F90", "sub/c.F90">>

\* input_to_output_fpath(...).with_suffix(self.output_suffix)
output_fpath ==
    [i \in DOMAIN Items |->
       CASE Items[i] = "a.F90" -> "build_output/a.f90"
         [] Items[i] = "b.F90" -> "build_output/b.f90"
         [] OTHER -> "build_output/sub/c.f90"]

\* output_fpath.parent
parent ==
    [i \in DOMAIN Items |->
       IF Items[i] = "sub/c.F90" THEN "build_output/sub"
       ELSE "build_output"]

\* an item that run_mp has not handed to a worker yet
Queued == [pc |-> "queued", kind |-> "none", path |-> "", message |-> <<>>]

\* A list in the hands of a caller: none, a list of its own, or the list
\* object that a linker stores for a library.
NoList == [kind |-> "none", linker |-> 0, lib |-> "", list |-> <<>>]

\* Psyclone.__init__: Tool.__init__ leaves _is_available undetermined;
\* _version is the tuple of the numbers of the version, <<>> for None
Psyclone == [_is_available |-> None, _version |-> <<>>]

\* before the first PreProcessor.run: nothing on disk, no output collection
NoRun ==
    [pc |-> "idle", reuse_artefacts |-> FALSE, multiprocessing |-> FALSE,
     it |-> [i \in DOMAIN Items |-> Queued], completed |-> <<>>,
     spawned |-> {}, files |-> {}, dirs |-> {},
     store |-> [set |-> FALSE, paths |-> <<>>],
     error |-> <<>>, runs |-> 0]

CrayCc(h, compiler) ==
    CompilerWrapper(h, "CrayCc", <<"craycc">> \o h[compiler].name, "craycc",
                    compiler, TRUE)

Heap0 ==
    LET h0 == <<Gcc, Gfortran>>
    IN h0 \o <<Mpicc(h0, gcc), CrayCc(h0, gcc), Mpif90(h0, gfortran)>>

LdflagsValues == {<<>>, <<" ", "-ldflag", " ", " ", "-lm">>}

Init ==
    /\ heap = Heap0
    /\ env \in [LDFLAGS : LdflagsValues]
    /\ last = NoResult
    /\ pc = [w \in Workers |-> "idle"]
    /\ call = [w \in Workers |-> NoCall]
    /\ orig_compiler_name = [w \in Workers |-> None]
    /\ ran = [w \in Workers |-> None]
    /\ repo = [c \in Category |-> <<>>]
    /\ tr = [_singleton |-> 0, objs |-> <<>>]
    /\ th = [t \in Threads |-> NoThread]
    /\ nt = [_singleton |-> 0, objs |-> <<>>, adds |-> 0]
    /\ pp = NoRun
    /\ psyclone = Psyclone
    /\ held = NoList

\* ------------------------------------------------------------------------
\* Tool
\* ------------------------------------------------------------------------
RECURSIVE SumLen(_, _)
SumLen(h, S) ==
    IF S = {} THEN 0
    ELSE LET t == CHOOSE x \in S : TRUE
         IN Len(h[t]._flags) + SumLen(h, S \ {t})

TotalFlags(h) == SumLen(h, DOMAIN h)

\* Tool.add_flags: appends to the tool's own list.
add_flags(h, t, new_flags) ==
    [h EXCEPT ![t]._flags = @ \o new_flags]

\* Tool.change_exec_name
change_exec_name(h, t, exec_name) ==
    [h EXCEPT ![t].exec_name = exec_name]

\* Tool.run: executable, the tool's flags, the caller's parameters.  rc is
\* the exit code of the spawned process.
run(h, t, additional_parameters, rc) ==
    [raised |-> IF rc = 0 THEN None ELSE "RuntimeError",
     command |-> <<h[t].exec_name>> \o flags(h, t) \o additional_parameters]

\* Tool.is_available: check_available() probes the executable through
\* get_version(); the result (and the version) is cached.  probe is 0 when
\* the executable cannot be run and the version it reports otherwise.
Tool_is_available(h, t, probe) ==
    IF h[t]._is_available # None
    THEN [heap |-> h, value |-> h[t]._is_available]
    ELSE [heap |-> [h EXCEPT ![t]._is_available =
                                 IF probe = 0 THEN "False" ELSE "True",
                             ![t]._version = probe],
          value |-> IF probe = 0 THEN "False" ELSE "True"]

\* Tool.get_version of a tool whose probe succeeded
get_version(h, t) == h[t]._version

\* ------------------------------------------------------------------------
\* Compiler
\* ------------------------------------------------------------------------
InputFile == "a.f90"
OutputFile == "a.o"

\* The flags of the calls that name the module output flag -J of a Fortran
\* compiler, which set_module_output_path manages.
ManagedFlags == {"-J/b"}
RemovingManagedFlag == "Removing managed flag"
OpenmpFlagProvided ==
    "explicitly provided. OpenMP should be enabled in the BuildConfiguration"

\* A filter that removes nothing.
remove_nothing(h, c, add) == add

\* FortranCompiler.compile_file: add_flags without the managed flags
remove_managed(h, c, add) ==
    IF h[c].cls = "FortranCompiler"
    THEN SelectSeq(add, LAMBDA f : f \notin ManagedFlags)
    ELSE add

\* Compiler.compile_file / FortranCompiler.compile_file of a compiler that is
\* not a wrapper.
Compiler_compile_file(h, c, openmp, add, syntax_only, rc) ==
    IF syntax_only = "True" /\ h[c].cls # "FortranCompiler"
    THEN [heap |-> h, raised |-> "UnsupportedOperation", command |-> <<>>,
          warnings |-> <<>>]
    ELSE LET kept == remove_managed(h, c, add)
             params ==
                 <<"-c">>
                 \o (IF openmp THEN <<h[c]._openmp_flag>> ELSE <<>>)
                 \o kept
                 \o (IF syntax_only = "True" THEN <<"-fsyntax-only">>
                     ELSE <<>>)
                 \o (IF h[c].cls = "FortranCompiler"
                        /\ h[c]._module_output_path # None
                     THEN <<"-J", h[c]._module_output_path>> ELSE <<>>)
                 \o <<InputFile, "-o", OutputFile>>
             r == run(h, c, params, rc)
         IN [heap |-> h, raised |-> r.raised, command |-> r.command,
             warnings |->
                 (IF kept # add THEN <<RemovingManagedFlag>> ELSE <<>>)
                 \o (IF openmp
                        /\ \E i \in DOMAIN kept :
                              kept[i] = h[c]._openmp_flag
                     THEN <<OpenmpFlagProvided>> ELSE <<>>)]

\* ------------------------------------------------------------------------
\* CompilerWrapper
\* ------------------------------------------------------------------------
SyntaxOnlyError == "RuntimeError: Syntax-only cannot be used with compiler"
NoSyntaxOnlyError == "RuntimeError: has no has_syntax_only"
NoModuleOutputError == "RuntimeError: has no 'set_module_output_path'"

\* A wrapper that drops syntax_only for a compiler that is not a Fortran
\* compiler instead of raising.
compile_file_dropflag(h, t, openmp, add, syntax_only, rc) ==
    IF ~IsWrapper(h[t])
    THEN Compiler_compile_file(h, t, openmp, add, syntax_only, rc)
    ELSE LET c == h[t]._compiler
             orig == h[c].exec_name
             h1 == change_exec_name(h, c, h[t].exec_name)
             r == Compiler_compile_file(
                      h1, c, openmp, add,
                      IF h1[c].cls = "FortranCompiler" THEN syntax_only
                      ELSE None, rc)
         IN IF r.raised # None
            THEN r
            ELSE [r EXCEPT !.heap = change_exec_name(r.heap, c, orig)]

\* CompilerWrapper.compile_file; a tool that is not a wrapper compiles
\* itself.
RECURSIVE compile_file(_, _, _, _, _, _)
compile_file(h, t, openmp, add, syntax_only, rc) ==
    IF ~IsWrapper(h[t])
    THEN Compiler_compile_file(h, t, openmp, add, syntax_only, rc)
    ELSE LET c == h[t]._compiler
             orig == h[c].exec_name
             h1 == change_exec_name(h, c, h[t].exec_name)
             r == IF h1[c].cls = "FortranCompiler"
                  THEN compile_file(h1, c, openmp, add, syntax_only, rc)
                  ELSE IF syntax_only # None
                  THEN [heap |-> h1, raised |-> SyntaxOnlyError,
                        command |-> <<>>, warnings |-> <<>>]
                  ELSE compile_file(h1, c, openmp, add, None, rc)
         IN IF r.raised # None
            THEN r
            ELSE [r EXCEPT !.heap = change_exec_name(r.heap, c, orig)]

\* CompilerWrapper.is_available of a wrapper of a plain compiler.  probe_w
\* and probe_c are what the wrapper's and the compiler's executable answer
\* to a version query (0: cannot be run).
CompilerWrapper_is_available(h, w, probe_w, probe_c) ==
    IF h[w]._is_available # None
    THEN [heap |-> h, value |-> h[w]._is_available]
    ELSE LET c == h[w]._compiler
             rc == Tool_is_available(h, c, probe_c)
         IN IF rc.value = "False"
            THEN [heap |-> [rc.heap EXCEPT ![w]._is_available = "False"],
                  value |-> "False"]
            ELSE LET rw == Tool_is_available(rc.heap, w, probe_w)
                 IN IF rw.value = "False"
                    THEN rw
                    ELSE IF get_version(rw.heap, w) # get_version(rw.heap, c)
                    THEN [heap |-> rw.heap, value |-> "False"]
                    ELSE [heap |-> rw.heap, value |-> "True"]

is_available(h, t, probe_w, probe_c) ==
    IF IsWrapper(h[t])
    THEN CompilerWrapper_is_available(h, t, probe_w, probe_c)
    ELSE Tool_is_available(h, t, probe_c)

\* CompilerWrapper.has_syntax_only; gfortran supports syntax-only.
has_syntax_only(h, w) ==
    IF category(h, h[w]._compiler) = FORTRAN_COMPILER
    THEN [raised |-> None, value |-> "True"]
    ELSE [raised |-> NoSyntaxOnlyError, value |-> None]

\* CompilerWrapper.set_module_output_path
RECURSIVE set_module_output_path(_, _, _)
set_module_output_path(h, t, path) ==
    IF ~IsWrapper(h[t])
    THEN [heap |-> [h EXCEPT ![t]._module_output_path = path],
          raised |-> None]
    ELSE IF category(h, h[t]._compiler) # FORTRAN_COMPILER
    THEN [heap |-> h, raised |-> NoModuleOutputError]
    ELSE set_module_output_path(h, h[t]._compiler, path)

\* ------------------------------------------------------------------------
\* Calls on the decoration chain
\* ------------------------------------------------------------------------
workers == <<pc, call, orig_compiler_name, ran>>
lifecycle == <<tr, th, nt>>

AddFlags(t, f) ==
    /\ TotalFlags(heap) < MaxFlags
    /\ heap' = add_flags(heap, t, <<f>>)
    /\ last' = Result("add_flags", t, None, <<>>, None, <<>>)
    /\ UNCHANGED <<env, workers, repo, lifecycle, pp, psyclone, held>>

\* linker = Linker(compiler)
NewLinker(c) ==
    /\ Cardinality({t \in DOMAIN heap : heap[t].cls = "Linker"}) < MaxLinkers
    /\ heap' = Append(heap, Linker(heap, env, c))
    /\ last' = Result("Linker", Len(heap) + 1, None, <<>>, None, <<>>)
    /\ UNCHANGED <<env, workers, repo, lifecycle, pp, psyclone, held>>

CompileFile(t, openmp, add, syntax_only, rc) ==
    /\ LET r == compile_file(heap, t, openmp, add, syntax_only, rc)
       IN /\ heap' = r.heap
          /\ last' = Result("compile_file", t, r.raised, r.command,
                            r.warnings,
                            [openmp |-> openmp, add_flags |-> add,
                             syntax_only |-> syntax_only])
    /\ UNCHANGED <<env, workers, repo, lifecycle, pp, psyclone, held>>

HasSyntaxOnly(w) ==
    /\ IsWrapper(heap[w])
    /\ LET r == has_syntax_only(heap, w)
       IN last' = Result("has_syntax_only", w, r.raised, <<>>, r.value, <<>>)
    /\ UNCHANGED <<heap, env, workers, repo, lifecycle, pp, psyclone, held>>

SetModuleOutputPath(t, path) ==
    /\ IsWrapper(heap[t])
    /\ LET r == set_module_output_path(heap, t, path)
       IN /\ heap' = r.heap
          /\ last' = Result("set_module_output_path", t, r.raised, <<>>,
                            None, <<>>)
    /\ UNCHANGED <<env, workers, repo, lifecycle, pp, psyclone, held>>

AddFlagsArgs == {<<"-O3">>}
SyntaxOnlyArgs == {None, "True", "False"}

\* The tools the sequential calls are made on (the second wrapper of gcc is
\* used by the concurrent workers only).
ChainTools == DOMAIN heap \ {craycc}

Next ==
    \/ \E t \in BaseIds \cup {mpicc}, f \in ToolFlags : AddFlags(t, f)
    \/ \E c \in BaseIds : NewLinker(c)
    \/ \E t \in ChainTools, openmp \in BOOLEAN, add \in AddFlagsArgs,
          so \in SyntaxOnlyArgs, rc \in {0, 1} :
          CompileFile(t, openmp, add, so, rc)
    \/ \E w \in ChainTools : HasSyntaxOnly(w)
    \/ \E t \in ChainTools : SetModuleOutputPath(t, "/module_out")


Spec == Init /\ [][Next]_vars

\* The add_flags of the compile_file calls of SpecCompile: those of the
\* unit tests of the wrappers.
CompileAddFlags ==
    {<<>>, <<"-O3">>, <<"-J/b", "-O3">>, <<"-fopenmp", "-O3">>}
ModulePaths == {"/module_out"}

NextCompile ==
    \/ \E t \in ChainTools, openmp \in BOOLEAN, add \in CompileAddFlags,
          syntax_only \in SyntaxOnlyArgs, rc \in {0, 1} :
          CompileFile(t, openmp, add, syntax_only, rc)
    \/ \E t \in ChainTools, path \in ModulePaths :
          SetModuleOutputPath(t, path)
    \/ \E t \in BaseIds \cup {mpicc}, f \in ToolFlags : AddFlags(t, f)

SpecCompile == Init /\ [][NextCompile]_vars

\* ------------------------------------------------------------------------
\* Reading is_available
\* ------------------------------------------------------------------------
Probes == {0} \cup Versions

IsAvailable(t, probe_w, probe_c) ==
    /\ LET r == is_available(heap, t, probe_w, probe_c)
       IN /\ heap' = r.heap
          /\ last' = Result("is_available", t, None, <<>>, r.value, <<>>)
    /\ UNCHANGED <<env, workers, repo, lifecycle, pp, psyclone, held>>

NextAvail ==
    \E t \in DOMAIN heap, probe_w \in Probes, probe_c \in Probes :
        IsAvailable(t, probe_w, probe_c)

SpecAvail == Init /\ [][NextAvail]_vars

\* ------------------------------------------------------------------------
\* Two workers inside CompilerWrapper.compile_file
\* ------------------------------------------------------------------------
\* compile_file(...) is entered
cf_call(w, wrapper, syntax_only, rc) ==
    /\ pc[w] = "idle"
    /\ IsWrapper(heap[wrapper])
    /\ call' = [call EXCEPT ![w] = [wrapper |-> wrapper,
                                    syntax_only |-> syntax_only, rc |-> rc]]
    /\ pc' = [pc EXCEPT ![w] = "save"]
    /\ UNCHANGED <<heap, env, last, orig_compiler_name, ran, repo, lifecycle,
                 pp, psyclone, held>>

\* orig_compiler_name = self._compiler.exec_name
cf_save(w) ==
    /\ pc[w] = "save"
    /\ orig_compiler_name' =
           [orig_compiler_name EXCEPT
              ![w] = heap[heap[call[w].wrapper]._compiler].exec_name]
    /\ pc' = [pc EXCEPT ![w] = "change"]
    /\ UNCHANGED <<heap, env, last, call, ran, repo, lifecycle, pp,
                 psyclone, held>>

\* self._compiler.change_exec_name(self.exec_name)
cf_change(w) ==
    /\ pc[w] = "change"
    /\ heap' = change_exec_name(heap, heap[call[w].wrapper]._compiler,
                                heap[call[w].wrapper].exec_name)
    /\ pc' = [pc EXCEPT ![w] = "delegate"]
    /\ UNCHANGED <<env, last, call, orig_compiler_name, ran, repo, lifecycle,
                 pp, psyclone, held>>

\* the isinstance test and self._compiler.compile_file(...): the command is
\* built from the compiler's exec_name of this moment.
cf_delegate(w) ==
    /\ pc[w] = "delegate"
    /\ LET c == heap[call[w].wrapper]._compiler
           r == IF heap[c].cls = "FortranCompiler"
                THEN Compiler_compile_file(heap, c, FALSE, <<>>,
                                           call[w].syntax_only, call[w].rc)
                ELSE IF call[w].syntax_only # None
                THEN [heap |-> heap, raised |-> SyntaxOnlyError,
                      command |-> <<>>, warnings |-> <<>>]
                ELSE Compiler_compile_file(heap, c, FALSE, <<>>, None,
                                           call[w].rc)
       IN /\ ran' = [ran EXCEPT ![w] = IF r.command = <<>> THEN None
                                       ELSE Head(r.command)]
          /\ pc' = [pc EXCEPT ![w] = IF r.raised # None THEN "raised"
                                     ELSE "restore"]
    /\ UNCHANGED <<heap, env, last, call, orig_compiler_name, repo, lifecycle,
                 pp, psyclone, held>>

\* self._compiler.change_exec_name(orig_compiler_name)
cf_restore(w) ==
    /\ pc[w] = "restore"
    /\ heap' = change_exec_name(heap, heap[call[w].wrapper]._compiler,
                                orig_compiler_name[w])
    /\ pc' = [pc EXCEPT ![w] = "returned"]
    /\ UNCHANGED <<env, last, call, orig_compiler_name, ran, repo, lifecycle,
                 pp, psyclone, held>>

NextConc ==
    \/ \E w \in Workers, wrapper \in DOMAIN heap, so \in SyntaxOnlyArgs,
          rc \in {0, 1} : cf_call(w, wrapper, so, rc)
    \/ \E w \in Workers : cf_save(w)
    \/ \E w \in Workers : cf_change(w)
    \/ \E w \in Workers : cf_delegate(w)
    \/ \E w \in Workers : cf_restore(w)

SpecConc == Init /\ [][NextConc]_vars
\* ------------------------------------------------------------------------
\* Linker
\* ------------------------------------------------------------------------
UnknownLibraryError == "RuntimeError: Unknown library name"

\* The characters of the path strings, as code points of the order of str.
Codes ==
    [f \in Files |->
       CASE f = "b.o" -> <<98, 46, 111>>
         [] f = "ab.o" -> <<97, 98, 46, 111>>]

\* str.__lt__
RECURSIVE LexLess(_, _)
LexLess(a, b) ==
    IF b = <<>> THEN FALSE
    ELSE IF a = <<>> THEN TRUE
    ELSE IF Head(a) # Head(b) THEN Head(a) < Head(b)
    ELSE LexLess(Tail(a), Tail(b))

RECURSIVE Insert(_, _)
Insert(x, s) ==
    IF s = <<>> THEN <<x>>
    ELSE IF LexLess(Codes[x], Codes[Head(s)]) THEN <<x>> \o s
    ELSE <<Head(s)>> \o Insert(x, Tail(s))

\* The input files as they were given.
sorted_as_given(s) == s

\* sorted(map(str, input_files))
RECURSIVE sorted(_)
sorted(s) ==
    IF s = <<>> THEN <<>>
    ELSE Insert(s[Len(s)], sorted(SubSeq(s, 1, Len(s) - 1)))

\* A lookup that answers an unknown library with no flags.
get_lib_flags_default(h, l, lib) ==
    IF lib \in DOMAIN h[l]._lib_flags
    THEN [raised |-> None, value |-> h[l]._lib_flags[lib]]
    ELSE [raised |-> None, value |-> <<>>]

\* Linker.get_lib_flags
get_lib_flags(h, l, lib) ==
    IF lib \in DOMAIN h[l]._lib_flags
    THEN [raised |-> None, value |-> h[l]._lib_flags[lib]]
    ELSE [raised |-> UnknownLibraryError, value |-> <<>>]

\* An add_lib_flags that keeps the flags of a library it already knows.
add_lib_flags_keep(h, l, lib, fl, silent_replace) ==
    [heap |-> [h EXCEPT ![l]._lib_flags = @ @@ (lib :> fl)],
     warned |-> lib \in DOMAIN h[l]._lib_flags /\ ~silent_replace]

\* Linker.add_lib_flags
add_lib_flags(h, l, lib, fl, silent_replace) ==
    [heap |-> [h EXCEPT ![l]._lib_flags = (lib :> fl) @@ @],
     warned |-> lib \in DOMAIN h[l]._lib_flags /\ ~silent_replace]

\* Linker.remove_lib_flags
remove_lib_flags(h, l, lib) ==
    [h EXCEPT ![l]._lib_flags =
        [x \in (DOMAIN @) \ {lib} |-> @[x]]]

\* Linker.add_pre_lib_flags
add_pre_lib_flags(h, l, fl) ==
    [h EXCEPT ![l]._pre_lib_flags = @ \o fl]

\* Linker.add_post_lib_flags
add_post_lib_flags(h, l, fl) ==
    [h EXCEPT ![l]._post_lib_flags = @ \o fl]

\* for lib in (libs or []): params.extend(self.get_lib_flags(lib))
RECURSIVE extend_libs(_, _, _, _)
extend_libs(h, l, params, libs) ==
    IF libs = <<>> THEN [raised |-> None, params |-> params]
    ELSE LET r == get_lib_flags(h, l, Head(libs))
         IN IF r.raised # None
            THEN [raised |-> r.raised, params |-> params]
            ELSE extend_libs(h, l, params \o r.value, Tail(libs))

\* Linker.link
link(h, l, input_files, output_file, openmp, libs, rc) ==
    LET p1 == IF openmp THEN <<h[h[l]._compiler]._openmp_flag>> ELSE <<>>
        p2 == p1 \o sorted(input_files)
        p3 == p2 \o h[l]._pre_lib_flags
        r == extend_libs(h, l, p3, libs)
    IN IF r.raised # None
       THEN [raised |-> r.raised, command |-> <<>>]
       ELSE run(h, l,
                r.params \o h[l]._post_lib_flags
                         \o <<h[l]._output_flag, output_file>>,
                rc)

MaxHeld == 2         \* length of the list a caller holds

\* The content of the list a caller holds.
held_list(h, c) ==
    IF c.kind = "stored" THEN h[c.linker]._lib_flags[c.lib] ELSE c.list

\* self._lib_flags[lib] = flags[:] and del self._lib_flags[lib] take the
\* list object out of the dictionary: a caller that holds it keeps it,
\* with its content, as a list of its own.
detach(h, c, l, lib) ==
    IF c.kind = "stored" /\ c.linker = l /\ c.lib = lib
    THEN [kind |-> "own", linker |-> 0, lib |-> "",
          list |-> h[l]._lib_flags[lib]]
    ELSE c

Linkers(h) == {t \in DOMAIN h : h[t].cls = "Linker"}

AddLibFlags(l, lib, fl, silent_replace) ==
    /\ l \in Linkers(heap)
    /\ LET r == add_lib_flags(heap, l, lib, fl, silent_replace)
       IN /\ heap' = r.heap
          /\ last' = Result("add_lib_flags", l, None, <<>>, r.warned, lib)
    /\ held' = detach(heap, held, l, lib)
    /\ UNCHANGED <<env, workers, repo, lifecycle, pp, psyclone>>

RemoveLibFlags(l, lib) ==
    /\ l \in Linkers(heap)
    /\ heap' = remove_lib_flags(heap, l, lib)
    /\ last' = Result("remove_lib_flags", l, None, <<>>, None, lib)
    /\ held' = detach(heap, held, l, lib)
    /\ UNCHANGED <<env, workers, repo, lifecycle, pp, psyclone>>

AddPreLibFlags(l, fl) ==
    /\ l \in Linkers(heap)
    /\ Len(heap[l]._pre_lib_flags) + Len(fl) <= MaxRegion
    /\ heap' = add_pre_lib_flags(heap, l, fl)
    /\ last' = Result("add_pre_lib_flags", l, None, <<>>, None, <<>>)
    /\ UNCHANGED <<env, workers, repo, lifecycle, pp, psyclone, held>>

AddPostLibFlags(l, fl) ==
    /\ l \in Linkers(heap)
    /\ Len(heap[l]._post_lib_flags) + Len(fl) <= MaxRegion
    /\ heap' = add_post_lib_flags(heap, l, fl)
    /\ last' = Result("add_post_lib_flags", l, None, <<>>, None, <<>>)
    /\ UNCHANGED <<env, workers, repo, lifecycle, pp, psyclone, held>>

GetLibFlags(l, lib) ==
    /\ l \in Linkers(heap)
    /\ LET r == get_lib_flags(heap, l, lib)
       IN last' = Result("get_lib_flags", l, r.raised, <<>>, r.value, lib)
    /\ UNCHANGED <<heap, env, workers, repo, lifecycle, pp, psyclone, held>>

OutFile == "a.out"

Link(l, input_files, openmp, libs, rc) ==
    /\ l \in Linkers(heap)
    /\ LET r == link(heap, l, input_files, OutFile, openmp, libs, rc)
       IN last' = Result("link", l, r.raised, r.command, None,
                         [input_files |-> input_files, openmp |-> openmp,
                          libs |-> libs])
    /\ UNCHANGED <<heap, env, workers, repo, lifecycle, pp, psyclone, held>>

SeqsUpTo(S, n) == UNION {[1..k -> S] : k \in 0..n}

\* input_files: two files, given in descending order
InputLists == {<<"b.o", "ab.o">>}

\* One linker is made and then used; flags are added to it and to the
\* compiler it wraps.
NextLink ==
    \/ \E c \in BaseIds : Linkers(heap) = {} /\ NewLinker(c)
    \/ \E l \in Linkers(heap), f \in ToolFlags :
          \E t \in {l, heap[l]._compiler} : AddFlags(t, f)
    \/ \E l \in DOMAIN heap, lib \in Libs, fl \in LibFlagLists,
          silent \in BOOLEAN : AddLibFlags(l, lib, fl, silent)
    \/ \E l \in DOMAIN heap, lib \in Libs : RemoveLibFlags(l, lib)
    \/ \E l \in DOMAIN heap : AddPreLibFlags(l, <<"-p">>)
    \/ \E l \in DOMAIN heap : AddPostLibFlags(l, <<"-q">>)
    \/ \E l \in DOMAIN heap, lib \in Libs : GetLibFlags(l, lib)
    \/ \E l \in DOMAIN heap, input_files \in InputLists,
          openmp \in BOOLEAN, libs \in SeqsUpTo(Libs, MaxLibs) :
          Link(l, input_files, openmp, libs, 0)

SpecLink == Init /\ [][NextLink]_vars

\* ------------------------------------------------------------------------
\* Lists shared between a caller and a Linker
\* ------------------------------------------------------------------------
\* flags = [...]: the caller makes a list
NewList(fl) ==
    /\ held' = [kind |-> "own", linker |-> 0, lib |-> "", list |-> fl]
    /\ last' = Result("list", 0, None, <<>>, fl, <<>>)
    /\ UNCHANGED <<heap, env, workers, repo, lifecycle, pp, psyclone>>

\* linker.add_lib_flags(lib, flags) with the list the caller holds
AddHeldLibFlags(l, lib) ==
    /\ l \in Linkers(heap)
    /\ held.kind # "none"
    /\ LET r == add_lib_flags(heap, l, lib, held_list(heap, held), TRUE)
       IN /\ heap' = r.heap
          /\ last' = Result("add_lib_flags", l, None, <<>>, r.warned, lib)
    /\ held' = detach(heap, held, l, lib)
    /\ UNCHANGED <<env, workers, repo, lifecycle, pp, psyclone>>

\* flags = linker.get_lib_flags(lib): return self._lib_flags[lib] hands
\* out the list object the dictionary holds
KeepLibFlags(l, lib) ==
    /\ l \in Linkers(heap)
    /\ LET r == get_lib_flags(heap, l, lib)
       IN /\ last' = Result("get_lib_flags", l, r.raised, <<>>, r.value,
                            lib)
          /\ held' = IF r.raised # None THEN held
                     ELSE [kind |-> "stored", linker |-> l, lib |-> lib,
                           list |-> <<>>]
    /\ UNCHANGED <<heap, env, workers, repo, lifecycle, pp, psyclone>>

\* flags.append(flag) on the list the caller holds
AppendToHeld(flag) ==
    /\ held.kind # "none"
    /\ Len(held_list(heap, held)) < MaxHeld
    /\ IF held.kind = "stored"
       THEN /\ heap' = [heap EXCEPT
                          ![held.linker]._lib_flags[held.lib] =
                              Append(@, flag)]
            /\ held' = held
       ELSE /\ held' = [held EXCEPT !.list = Append(@, flag)]
            /\ heap' = heap
    /\ last' = Result("list.append", 0, None, <<>>, flag, <<>>)
    /\ UNCHANGED <<env, workers, repo, lifecycle, pp, psyclone>>

NextShared ==
    \/ \E c \in BaseIds : Linkers(heap) = {} /\ NewLinker(c)
    \/ \E fl \in LibFlagLists : NewList(fl)
    \/ \E l \in DOMAIN heap, lib \in Libs : AddHeldLibFlags(l, lib)
    \/ \E l \in DOMAIN heap, lib \in Libs : RemoveLibFlags(l, lib)
    \/ \E l \in DOMAIN heap, lib \in Libs : KeepLibFlags(l, lib)
    \/ AppendToHeld("-m")
    \/ \E l \in DOMAIN heap : AddPreLibFlags(l, <<"-p">>)
    \/ \E l \in DOMAIN heap : AddPostLibFlags(l, <<"-q">>)
    \/ \E l \in DOMAIN heap, lib \in Libs :
          Link(l, <<"b.o", "ab.o">>, FALSE, <<lib>>, 0)

SpecShared == Init /\ [][NextShared]_vars

\* ------------------------------------------------------------------------
\* ToolRepository
\* ------------------------------------------------------------------------
\* Tool.is_compiler
is_compiler(h, t) == is_compiler_category(h[t]._category)

Cpp == Tool("Cpp", <<"cpp">>, "cpp", PREPROCESSOR, None, FALSE, "")

\* ToolRepository.add_tool
add_tool(h, e, r, tool) ==
    LET r1 == [r EXCEPT ![category(h, tool)] = Append(@, tool)]
    IN IF is_compiler(h, tool)
       THEN LET h2 == Append(h, Linker(h, e, tool))
                linker == Len(h2)
            IN [heap |-> h2,
                repo |-> [r1 EXCEPT ![category(h2, linker)] =
                                        Append(@, linker)]]
       ELSE [heap |-> h, repo |-> r1]

Icc == Tool("CCompiler", <<"icc">>, "icc", C_COMPILER, "intel-classic",
            FALSE, "-qopenmp")

Ifort == Tool("FortranCompiler", <<"ifort">>, "ifort", FORTRAN_COMPILER,
              "intel-classic", FALSE, "-qopenmp")

UnknownCategoryError == "KeyError: Unknown category"
UnknownToolError == "KeyError: Unknown tool"
InvalidCategoryError == "RuntimeError: Invalid category type"
MissingMpiError == "RuntimeError: Invalid or missing mpi specification"
NoMpiMatchError == "RuntimeError: Could not find a tool that supports MPI"
SuiteNotFoundError == "RuntimeError: Cannot find category in the suite"
IndexError == "IndexError: list index out of range"

\* type(e).__name__ of the exceptions the registry raises
ExceptionType(e) ==
    CASE e = None -> None
      [] e \in {UnknownCategoryError, UnknownToolError, "KeyError"} ->
           "KeyError"
      [] e = IndexError -> "IndexError"
      [] OTHER -> "RuntimeError"

\* for tool in all_tools: if tool.name == name: return tool
RECURSIVE first_named(_, _, _)
first_named(h, all_tools, name) ==
    IF all_tools = <<>> THEN 0
    ELSE IF h[Head(all_tools)].name = name THEN Head(all_tools)
    ELSE first_named(h, Tail(all_tools), name)

\* A lookup that answers with the first tool of the category.
get_tool_first(h, r, cat, name) ==
    IF cat \notin DOMAIN r
    THEN [raised |-> UnknownCategoryError, value |-> 0]
    ELSE IF r[cat] = <<>>
    THEN [raised |-> UnknownToolError, value |-> 0]
    ELSE [raised |-> None, value |-> Head(r[cat])]

\* ToolRepository.get_tool
get_tool(h, r, cat, name) ==
    IF cat \notin DOMAIN r
    THEN [raised |-> UnknownCategoryError, value |-> 0]
    ELSE LET tool == first_named(h, r[cat], name)
         IN IF tool # 0
            THEN [raised |-> None, value |-> tool]
            ELSE [raised |-> UnknownToolError, value |-> 0]

\* for tool in self[category]: if mpi == tool.mpi: return tool
RECURSIVE first_mpi(_, _, _)
first_mpi(h, tools, want) ==
    IF tools = <<>> THEN 0
    ELSE IF mpi(h, Head(tools)) = want THEN Head(tools)
    ELSE first_mpi(h, Tail(tools), want)

\* A default that is the first tool of the category whatever its mpi.
get_default_first(h, r, cat, want) ==
    IF cat \notin Category
    THEN [raised |-> InvalidCategoryError, value |-> 0]
    ELSE IF r[cat] = <<>>
    THEN [raised |-> IndexError, value |-> 0]
    ELSE [raised |-> None, value |-> Head(r[cat])]

\* ToolRepository.get_default; want is None when mpi is omitted.
get_default(h, r, cat, want) ==
    IF cat \notin Category
    THEN [raised |-> InvalidCategoryError, value |-> 0]
    ELSE IF ~is_compiler_category(cat) /\ cat # LINKER
    THEN IF r[cat] = <<>>
         THEN [raised |-> IndexError, value |-> 0]
         ELSE [raised |-> None, value |-> r[cat][1]]
    ELSE IF want \notin {"True", "False"}
    THEN [raised |-> MissingMpiError, value |-> 0]
    ELSE LET tool == first_mpi(h, r[cat], want = "True")
         IN IF tool # 0
            THEN [raised |-> None, value |-> tool]
            ELSE [raised |-> NoMpiMatchError, value |-> 0]

\* key=lambda x: x.suite != suite; False < True
key_less(h, a, b, s) == suite(h, a) = s /\ suite(h, b) # s

\* x goes behind every tool whose key is not greater than its own
RECURSIVE insert_by_key(_, _, _, _)
insert_by_key(h, x, tools, s) ==
    IF tools = <<>> THEN <<x>>
    ELSE IF key_less(h, x, Head(tools), s) THEN <<x>> \o tools
    ELSE <<Head(tools)>> \o insert_by_key(h, x, Tail(tools), s)

\* A sort that puts the suite's tools first but turns the others round.
RECURSIVE sorted_unstable(_, _, _)
sorted_unstable(h, tools, s) ==
    IF tools = <<>> THEN <<>>
    ELSE LET x == Head(tools)
             rest == sorted_unstable(h, Tail(tools), s)
         IN IF suite(h, x) = s THEN <<x>> \o rest ELSE rest \o <<x>>

\* sorted(self[category], key=lambda x: x.suite != suite): a stable sort
RECURSIVE sorted_by_suite(_, _, _)
sorted_by_suite(h, tools, s) ==
    IF tools = <<>> THEN <<>>
    ELSE insert_by_key(h, tools[Len(tools)],
                       sorted_by_suite(h, SubSeq(tools, 1, Len(tools) - 1),
                                       s), s)

SuiteCategories == <<FORTRAN_COMPILER, C_COMPILER, LINKER>>

\* The loop of set_default_compiler_suite over the categories cats: a
\* category is sorted, then checked; the first failing check raises.
RECURSIVE sort_categories(_, _, _, _, _)
sort_categories(h, r, s, cats, check) ==
    IF cats = <<>> THEN [repo |-> r, raised |-> None]
    ELSE LET c == Head(cats)
             r1 == [r EXCEPT ![c] = sorted_by_suite(h, r[c], s)]
         IN IF check /\ Len(r1[c]) > 0 /\ suite(h, r1[c][1]) # s
            THEN [repo |-> r1, raised |-> SuiteNotFoundError]
            ELSE sort_categories(h, r1, s, Tail(cats), check)

\* A version that sorts and never raises.
set_default_nocheck(h, r, s) ==
    sort_categories(h, r, s, SuiteCategories, FALSE)

\* A version that looks at the Fortran compilers only.
set_default_fortran_only(h, r, s) ==
    sort_categories(h, r, s, <<FORTRAN_COMPILER>>, TRUE)

\* ToolRepository.set_default_compiler_suite
set_default_compiler_suite(h, r, s) ==
    sort_categories(h, r, s, SuiteCategories, TRUE)

RECURSIVE SumEntries(_, _)
SumEntries(r, S) ==
    IF S = {} THEN 0
    ELSE LET c == CHOOSE x \in S : TRUE
         IN Len(r[c]) + SumEntries(r, S \ {c})

Entries(r) == SumEntries(r, Category)

\* tr.add_tool(tool) with a tool that exists already
AddTool(tool) ==
    /\ Entries(repo) < MaxRepo
    /\ LET r == add_tool(heap, env, repo, tool)
       IN /\ heap' = r.heap
          /\ repo' = r.repo
    /\ last' = Result("add_tool", tool, None, <<>>, None, <<>>)
    /\ UNCHANGED <<env, workers, lifecycle, pp, psyclone, held>>

\* tr.add_tool(cls()) with a new tool
AddNewTool(obj) ==
    /\ Entries(repo) < MaxRepo
    /\ LET h1 == Append(heap, obj)
           r == add_tool(h1, env, repo, Len(h1))
       IN /\ heap' = r.heap
          /\ repo' = r.repo
    /\ last' = Result("add_tool", Len(heap) + 1, None, <<>>, None, <<>>)
    /\ UNCHANGED <<env, workers, lifecycle, pp, psyclone, held>>

\* tr.get_tool(category, name)
GetTool(cat, name) ==
    /\ LET r == get_tool(heap, repo, cat, name)
       IN last' = Result("get_tool", r.value, r.raised, <<>>, r.value,
                         [category |-> cat, name |-> name])
    /\ UNCHANGED <<heap, env, workers, repo, lifecycle, pp, psyclone, held>>

\* tr.get_default(category, mpi)
GetDefault(cat, want) ==
    /\ LET r == get_default(heap, repo, cat, want)
       IN last' = Result("get_default", r.value, r.raised, <<>>, r.value,
                         [category |-> cat, mpi |-> want])
    /\ UNCHANGED <<heap, env, workers, repo, lifecycle, pp, psyclone, held>>

\* tr.set_default_compiler_suite(suite)
SetDefaultCompilerSuite(s) ==
    /\ LET r == set_default_compiler_suite(heap, repo, s)
       IN /\ repo' = r.repo
          /\ last' = Result("set_default_compiler_suite", 0, r.raised, <<>>,
                            None, s)
    /\ UNCHANGED <<heap, env, workers, lifecycle, pp, psyclone, held>>

Suites == {"gnu", "intel-classic"}
NoCategory == "no-category"
LookupCategories == {C_COMPILER, LINKER, PREPROCESSOR, NoCategory}
LookupNames == {<<"gcc">>, <<"linker", "gcc">>, <<"cpp">>}
MpiArgs == {None, "True", "False"}

NextRepo ==
    \/ \E tool \in DOMAIN Heap0 : AddTool(tool)
    \/ \E obj \in {Cpp, Icc, Ifort} : AddNewTool(obj)
    \/ \E cat \in LookupCategories, name \in LookupNames :
          GetTool(cat, name)
    \/ \E cat \in LookupCategories, want \in MpiArgs :
          GetDefault(cat, want)
    \/ \E s \in Suites : SetDefaultCompilerSuite(s)

SpecRepo == Init /\ [][NextRepo]_vars
\* ------------------------------------------------------------------------
\* fab.newtools.ToolRepository
\* ------------------------------------------------------------------------
MaxNtAdds == 2       \* add_tool calls on the fab.newtools registry

\* ToolRepository._singleton: 0 is None, FROM_GET the marker string, k >= 1
\* the k-th instance made.
FROM_GET == -1

FORTRAN_PREPROCESSOR == "FORTRAN_PREPROCESSOR"
Categories == Category \cup {FORTRAN_PREPROCESSOR}

\* for cls in [Gcc, Icc, Gfortran, Ifort, Fpp, Cpp, CppFortran]
NtBuiltins == <<"Gcc", "Icc", "Gfortran", "Ifort", "Fpp", "Cpp",
                "CppFortran">>
NtClasses == {NtBuiltins[i] : i \in DOMAIN NtBuiltins}

\* tool.category of an instance of the class
NtCategory ==
    [cls \in NtClasses |->
       CASE cls \in {"Gcc", "Icc"} -> C_COMPILER
         [] cls \in {"Gfortran", "Ifort"} -> FORTRAN_COMPILER
         [] cls = "Cpp" -> PREPROCESSOR
         [] OTHER -> FORTRAN_PREPROCESSOR]

NoDict == [c \in {} |-> <<>>]
KeyError == "KeyError"
MustUseGetError == "RuntimeError: You must use 'ToolRepository.get()'"

\* fab.newtools ToolRepository.add_tool(cls) on the dict d; available is
\* what tool.is_available answers for the new instance.
nt_add_tool(d, cls, available) ==
    IF ~available THEN d
    ELSE IF NtCategory[cls] \in DOMAIN d
    THEN [d EXCEPT ![NtCategory[cls]] = Append(@, cls)]
    ELSE (NtCategory[cls] :> <<cls>>) @@ d

\* the loop of __init__ over the built-in classes
RECURSIVE nt_populate(_, _, _)
nt_populate(d, classes, avail) ==
    IF classes = <<>> THEN d
    ELSE nt_populate(nt_add_tool(d, Head(classes), Head(classes) \in avail),
                     Tail(classes), avail)

\* fab.newtools ToolRepository.get_default(category)
nt_get_default(d, cat) ==
    IF cat \notin Categories
    THEN [raised |-> InvalidCategoryError, value |-> None]
    ELSE IF cat \notin DOMAIN d
    THEN [raised |-> KeyError, value |-> None]
    ELSE [raised |-> None, value |-> d[cat][1]]

\* fab.newtools ToolRepository.__init__, entered with the class attribute
\* at singleton; avail are the built-in tools that are available.
nt_init(singleton, avail) ==
    IF singleton # FROM_GET
    THEN [raised |-> MustUseGetError, dict |-> NoDict]
    ELSE LET d == nt_populate(NoDict, NtBuiltins, avail)
             fc == nt_get_default(d, FORTRAN_COMPILER)
         IN IF fc.raised # None
            THEN [raised |-> fc.raised, dict |-> d]
            ELSE [raised |-> None, dict |-> (LINKER :> <<"Linker">>) @@ d]

\* fab.newtools ToolRepository.get()
nt_get(n, avail) ==
    IF n._singleton = 0
    THEN LET r == nt_init(FROM_GET, avail)
         IN IF r.raised # None
            THEN [nt |-> [n EXCEPT !._singleton = FROM_GET],
                  raised |-> r.raised, value |-> 0]
            ELSE [nt |-> [n EXCEPT !.objs = Append(@, r.dict),
                                   !._singleton = Len(n.objs) + 1],
                  raised |-> None, value |-> Len(n.objs) + 1]
    ELSE [nt |-> n, raised |-> None, value |-> n._singleton]

\* ------------------------------------------------------------------------
\* fab.tools.ToolRepository: __new__ and __init__
\* ------------------------------------------------------------------------
\* bool(obj) of a registry, a dict: true when it has a key
truthy(t, id) == id # 0 /\ t.objs[id].categories

NewRepository == [categories |-> FALSE, populated |-> 0]

\* ToolRepository.__new__
tr_new(t) ==
    IF ~truthy(t, t._singleton)
    THEN [tr |-> [t EXCEPT !.objs = Append(@, NewRepository),
                           !._singleton = Len(t.objs) + 1],
          self |-> Len(t.objs) + 1]
    ELSE [tr |-> t, self |-> t._singleton]

\* ToolRepository.__init__ on the instance self: the category lists are
\* made, then the built-in tools are added.
tr_init(t, self) ==
    IF truthy(t, t._singleton) THEN t
    ELSE [t EXCEPT !.objs[self].categories = TRUE,
                   !.objs[self].populated = @ + 1]

\* ToolRepository(): __new__, then __init__ on what it returned
tr_construct(t) ==
    LET n == tr_new(t)
    IN [tr |-> tr_init(n.tr, n.self), self |-> n.self]

\* ------------------------------------------------------------------------
\* Accesses to the registries, one after the other
\* ------------------------------------------------------------------------
\* ToolRepository() of fab.tools
TrConstruct ==
    /\ LET r == tr_construct(tr)
       IN /\ tr' = r.tr
          /\ last' = Result("ToolRepository", r.self, None, <<>>, r.self,
                            <<>>)
    /\ UNCHANGED <<heap, env, workers, repo, th, nt, pp, psyclone, held>>

\* ToolRepository.get() of fab.newtools
NtGet(avail) ==
    /\ LET r == nt_get(nt, avail)
       IN /\ nt' = r.nt
          /\ last' = Result("newtools.get", 0, r.raised, <<>>, r.value,
                            avail)
    /\ UNCHANGED <<heap, env, workers, repo, tr, th, pp, psyclone, held>>

\* ToolRepository() of fab.newtools, called directly
NtConstruct(avail) ==
    /\ Len(nt.objs) < 2
    /\ LET r == nt_init(nt._singleton, avail)
       IN /\ nt' = IF r.raised # None THEN nt
                   ELSE [nt EXCEPT !.objs = Append(@, r.dict)]
          /\ last' = Result("newtools.ToolRepository", 0, r.raised, <<>>,
                            IF r.raised # None THEN 0
                            ELSE Len(nt.objs) + 1, avail)
    /\ UNCHANGED <<heap, env, workers, repo, tr, th, pp, psyclone, held>>

\* ToolRepository.get().add_tool(cls) of fab.newtools
NtAddTool(cls, available) ==
    /\ nt._singleton >= 1
    /\ nt.adds < MaxNtAdds
    /\ nt' = [nt EXCEPT !.objs[nt._singleton] =
                            nt_add_tool(@, cls, available),
                        !.adds = @ + 1]
    /\ last' = Result("newtools.add_tool", 0, None, <<>>, None,
                      [cls |-> cls, available |-> available])
    /\ UNCHANGED <<heap, env, workers, repo, tr, th, pp, psyclone, held>>

\* ToolRepository.get().get_default(category) of fab.newtools
NtGetDefault(cat) ==
    /\ nt._singleton >= 1
    /\ LET r == nt_get_default(nt.objs[nt._singleton], cat)
       IN last' = Result("newtools.get_default", 0, r.raised, <<>>,
                         r.value, [category |-> cat, mpi |-> None])
    /\ UNCHANGED <<heap, env, workers, repo, lifecycle, pp, psyclone, held>>

Availabilities == {NtClasses, {"Gcc", "Gfortran", "Cpp"}, {"Gcc", "Cpp"}}

NextAccess ==
    \/ TrConstruct
    \/ \E avail \in Availabilities : NtGet(avail)
    \/ \E avail \in Availabilities : NtConstruct(avail)
    \/ \E cls \in {"Gcc", "Ifort"}, available \in BOOLEAN :
          NtAddTool(cls, available)
    \/ \E cat \in Categories \cup {NoCategory} : NtGetDefault(cat)

SpecAccess == Init /\ [][NextAccess]_vars

\* ------------------------------------------------------------------------
\* Two threads calling ToolRepository() of fab.tools; a thread may be
\* switched out between any two statements.
\* ------------------------------------------------------------------------
\* __new__: if not cls._singleton
NewCheck(t) ==
    /\ th[t].pc = "idle"
    /\ th' = [th EXCEPT ![t].pc = IF ~truthy(tr, tr._singleton)
                                  THEN "new_create" ELSE "new_return"]
    /\ UNCHANGED <<heap, env, last, workers, repo, tr, nt, pp, psyclone, held>>

\* __new__: cls._singleton = super().__new__(cls)
NewCreate(t) ==
    /\ th[t].pc = "new_create"
    /\ tr' = [tr EXCEPT !.objs = Append(@, NewRepository),
                        !._singleton = Len(tr.objs) + 1]
    /\ th' = [th EXCEPT ![t].pc = "new_return"]
    /\ UNCHANGED <<heap, env, last, workers, repo, nt, pp, psyclone, held>>

\* __new__: return cls._singleton
NewReturn(t) ==
    /\ th[t].pc = "new_return"
    /\ th' = [th EXCEPT ![t] = [pc |-> "init_check",
                                self |-> tr._singleton]]
    /\ UNCHANGED <<heap, env, last, workers, repo, tr, nt, pp, psyclone, held>>

\* __init__: if ToolRepository._singleton: return
InitCheck(t) ==
    /\ th[t].pc = "init_check"
    /\ th' = [th EXCEPT ![t].pc = IF truthy(tr, tr._singleton)
                                  THEN "done" ELSE "init_categories"]
    /\ UNCHANGED <<heap, env, last, workers, repo, tr, nt, pp, psyclone, held>>

\* __init__: for category in Category: self[category] = []
InitCategories(t) ==
    /\ th[t].pc = "init_categories"
    /\ tr' = [tr EXCEPT !.objs[th[t].self].categories = TRUE]
    /\ th' = [th EXCEPT ![t].pc = "init_populate"]
    /\ UNCHANGED <<heap, env, last, workers, repo, nt, pp, psyclone, held>>

\* __init__: the add_tool calls for the built-in tools
InitPopulate(t) ==
    /\ th[t].pc = "init_populate"
    /\ tr' = [tr EXCEPT !.objs[th[t].self].populated = @ + 1]
    /\ th' = [th EXCEPT ![t].pc = "done"]
    /\ UNCHANGED <<heap, env, last, workers, repo, nt, pp, psyclone, held>>

NextFirstAccess ==
    \E t \in Threads :
       \/ NewCheck(t)
       \/ NewCreate(t)
       \/ NewReturn(t)
       \/ InitCheck(t)
       \/ InitCategories(t)
       \/ InitPopulate(t)

SpecFirstAccess == Init /\ [][NextFirstAccess]_vars

\* ------------------------------------------------------------------------
\* fab.tools.run_command
\* ------------------------------------------------------------------------
\* bytes that are not valid UTF-8
Undecodable == "\\xff"

\* what subprocess.run meets: the executable is found or not, and when it
\* is, the exit code and the bytes the process writes
Proc(found, returncode, stdout, stderr) ==
    [found |-> found, returncode |-> returncode, stdout |-> stdout,
     stderr |-> stderr]

\* truth value of res.stdout / res.stderr: None and b'' are false
nonempty(b) == b # None /\ b # ""

FileNotFoundError == "FileNotFoundError"
UnicodeDecodeError == "UnicodeDecodeError"
RuntimeError == "RuntimeError"

\* run_command(command, env=None, cwd=None, capture_output=True)
run_command(command, capture_output, proc) ==
    IF ~proc.found
    THEN [raised |-> FileNotFoundError,
          message |-> <<"No such file or directory: ", command[1]>>,
          value |-> None]
    ELSE LET stdout == IF capture_output THEN proc.stdout ELSE None
             stderr == IF capture_output THEN proc.stderr ELSE None
         IN IF proc.returncode # 0
            THEN IF \/ nonempty(stdout) /\ stdout = Undecodable
                    \/ nonempty(stderr) /\ stderr = Undecodable
                 THEN [raised |-> UnicodeDecodeError, message |-> <<>>,
                       value |-> None]
                 ELSE [raised |-> RuntimeError,
                       message |->
                          <<"Command failed with return code ",
                            ToString(proc.returncode), ":">> \o command
                          \o (IF nonempty(stdout) THEN <<stdout>>
                              ELSE <<>>)
                          \o (IF nonempty(stderr) THEN <<stderr>>
                              ELSE <<>>),
                       value |-> None]
            ELSE IF capture_output
            THEN IF stdout = Undecodable
                 THEN [raised |-> UnicodeDecodeError, message |-> <<>>,
                       value |-> None]
                 ELSE [raised |-> None, message |-> <<>>, value |-> stdout]
            ELSE [raised |-> None, message |-> <<>>, value |-> None]

RunCommand(command, capture_output, proc) ==
    /\ LET r == run_command(command, capture_output, proc)
       IN last' = Result("run_command", 0, r.raised, r.message, r.value,
                         [command |-> command,
                          capture_output |-> capture_output,
                          proc |-> proc])
    /\ UNCHANGED <<heap, env, workers, repo, lifecycle, pp, psyclone, held>>

Commands == {<<"cpp", "a.F90">>, <<"fpp", "-P", "b.F90">>}
ReturnCodes == {0, 1}
Bytes == {"", "out", Undecodable}
Procs ==
    {Proc(FALSE, 0, "", "")}
    \cup {Proc(TRUE, rc, out, err) :
            rc \in ReturnCodes, out \in Bytes, err \in Bytes}

NextCmd ==
    \E command \in Commands, capture_output \in BOOLEAN, proc \in Procs :
       RunCommand(command, capture_output, proc)

SpecCmd == Init /\ [][NextCmd]_vars

\* ------------------------------------------------------------------------
\* fab.steps.preprocess.PreProcessor
\* ------------------------------------------------------------------------
MaxRuns == 2         \* PreProcessor.run calls, one after the other

\* A reuse test that never finds an output.
reuse_never(reuse_artefacts, files, i) == FALSE

\* self._config.reuse_artefacts and output_fpath.exists()
reuse_hit(reuse_artefacts, files, i) ==
    reuse_artefacts /\ output_fpath[i] \in files

\* A create that leaves the directories as they are.
mkdir_nothing(dirs, d) == dirs

\* Path.mkdir(parents=True, exist_ok=True)
mkdir(dirs, d) ==
    dirs \cup (IF d = "build_output/sub"
               THEN {"build_output", "build_output/sub"}
               ELSE {d})

\* command = [self.exe] + flags_for_path(...) + [str(fpath),
\*                                               str(output_fpath)]
command_for(i) == <<"cpp", "-P", Items[i], output_fpath[i]>>

\* Exception(f"error preprocessing {fpath}: {err}")
preprocessing_error(i, err) ==
    <<"error preprocessing ", Items[i], ": ">> \o err

\* A pool in which a failure ends the work on the items not yet done.
capture_abort(it, i, outcome) ==
    [j \in DOMAIN it |->
       IF j = i THEN outcome
       ELSE IF outcome.kind = "exception" /\ it[j].pc # "done"
       THEN [pc |-> "done", kind |-> "none", path |-> "", message |-> <<>>]
       ELSE it[j]]

\* run_mp: the outcome of item i, a path or a captured exception, is kept
\* as the result of item i
capture(it, i, outcome) == [it EXCEPT ![i] = outcome]

\* Results in the order in which the workers finished.
results_as_completed(it, completed) ==
    [k \in DOMAIN completed |-> it[completed[k]]]

\* results = self.run_mp(items=files, func=self.process_artefact)
run_mp_results(it, completed) == [i \in DOMAIN it |-> it[i]]

\* by_type(results, cls)
by_type(results, kind) == SelectSeq(results, LAMBDA r : r.kind = kind)

\* "\n\n".join(map(str, exceptions))
RECURSIVE join(_)
join(exceptions) ==
    IF exceptions = <<>> THEN <<>>
    ELSE IF Len(exceptions) = 1 THEN Head(exceptions).message
    ELSE Head(exceptions).message \o <<"\n\n">> \o join(Tail(exceptions))

\* An aggregate error made of the first failure.
aggregate_first(exceptions) ==
    Head(exceptions).message
    \o <<"\n\n", "1", " Error(s) found during preprocessing: ">>

\* the text of the Exception raised by run
aggregate(exceptions) ==
    join(exceptions)
    \o <<"\n\n", ToString(Len(exceptions)),
         " Error(s) found during preprocessing: ">>

\* A finish that stores the outputs it has also when items failed.
finish_publish(store, results) ==
    [raised |-> by_type(results, "exception") # <<>>,
     error |-> IF by_type(results, "exception") # <<>>
               THEN aggregate(by_type(results, "exception")) ELSE <<>>,
     store |-> [set |-> TRUE,
                paths |-> [k \in DOMAIN by_type(results, "path") |->
                             by_type(results, "path")[k].path]]]

\* run, after run_mp has returned: raise the aggregate error, or store the
\* output collection
finish(store, results) ==
    LET exceptions == by_type(results, "exception")
        paths == by_type(results, "path")
    IN IF exceptions # <<>>
       THEN [raised |-> TRUE, error |-> aggregate(exceptions),
             store |-> store]
       ELSE [raised |-> FALSE, error |-> <<>>,
             store |-> [set |-> TRUE,
                        paths |-> [k \in DOMAIN paths |-> paths[k].path]]]

\* run: a new run starts, every item is handed to run_mp
Run(reuse_artefacts, multiprocessing) ==
    /\ pp.pc # "running"
    /\ pp.runs < MaxRuns
    /\ pp' = [pp EXCEPT !.pc = "running",
                        !.reuse_artefacts = reuse_artefacts,
                        !.multiprocessing = multiprocessing,
                        !.it = [i \in DOMAIN Items |-> Queued],
                        !.completed = <<>>,
                        !.spawned = {},
                        !.error = <<>>,
                        !.runs = @ + 1]
    /\ UNCHANGED <<heap, env, last, workers, repo, lifecycle, psyclone, held>>

\* a worker may work on item i: any item in a parallel pool, the first
\* unfinished item in a serial one
Schedulable(i) ==
    /\ pp.pc = "running"
    /\ pp.multiprocessing \/ \A j \in 1..(i - 1) : pp.it[j].pc = "done"

\* process_artefact: the reuse test
CheckReuse(i) ==
    /\ Schedulable(i)
    /\ pp.it[i].pc = "queued"
    /\ pp' = IF reuse_hit(pp.reuse_artefacts, pp.files, i)
             THEN [pp EXCEPT
                     !.it = capture(pp.it, i,
                                    [pc |-> "done", kind |-> "path",
                                     path |-> output_fpath[i],
                                     message |-> <<>>]),
                     !.completed = Append(@, i)]
             ELSE [pp EXCEPT !.it[i].pc = "check_dir"]
    /\ UNCHANGED <<heap, env, last, workers, repo, lifecycle, psyclone, held>>

\* process_artefact: if not output_fpath.parent.exists()
CheckDir(i) ==
    /\ Schedulable(i)
    /\ pp.it[i].pc = "check_dir"
    /\ pp' = [pp EXCEPT !.it[i].pc = IF parent[i] \notin pp.dirs
                                     THEN "mkdir" ELSE "command"]
    /\ UNCHANGED <<heap, env, last, workers, repo, lifecycle, psyclone, held>>

\* process_artefact: output_fpath.parent.mkdir(parents=True, exist_ok=True)
Mkdir(i) ==
    /\ Schedulable(i)
    /\ pp.it[i].pc = "mkdir"
    /\ pp' = [pp EXCEPT !.dirs = mkdir(@, parent[i]),
                        !.it[i].pc = "command"]
    /\ UNCHANGED <<heap, env, last, workers, repo, lifecycle, psyclone, held>>

\* process_artefact: the command is built and run; the item ends with its
\* output path or with the exception
RunTool(i, proc) ==
    /\ Schedulable(i)
    /\ pp.it[i].pc = "command"
    /\ LET r == run_command(command_for(i), TRUE, proc)
           outcome ==
             IF r.raised # None
             THEN [pc |-> "done", kind |-> "exception", path |-> "",
                   message |-> preprocessing_error(i, r.message)]
             ELSE [pc |-> "done", kind |-> "path",
                   path |-> output_fpath[i], message |-> <<>>]
       IN pp' = [pp EXCEPT
                   !.it = capture(pp.it, i, outcome),
                   !.completed = Append(@, i),
                   !.spawned = @ \cup {i},
                   !.files = IF r.raised = None
                             THEN @ \cup {output_fpath[i]} ELSE @]
    /\ UNCHANGED <<heap, env, last, workers, repo, lifecycle, psyclone, held>>

\* run: run_mp has returned the results of all items
Finish ==
    /\ pp.pc = "running"
    /\ \A i \in DOMAIN Items : pp.it[i].pc = "done"
    /\ LET r == finish(pp.store, run_mp_results(pp.it, pp.completed))
       IN pp' = [pp EXCEPT !.pc = IF r.raised THEN "failed"
                                  ELSE "published",
                           !.error = r.error,
                           !.store = r.store]
    /\ UNCHANGED <<heap, env, last, workers, repo, lifecycle, psyclone, held>>

\* what the preprocessor may do when it is run on an item
ToolProcs == {Proc(TRUE, 0, "", ""), Proc(TRUE, 1, "", "err"),
              Proc(FALSE, 0, "", "")}

NextPre ==
    \/ \E reuse_artefacts \in BOOLEAN, multiprocessing \in BOOLEAN :
          Run(reuse_artefacts, multiprocessing)
    \/ \E i \in DOMAIN Items : CheckReuse(i)
    \/ \E i \in DOMAIN Items : CheckDir(i)
    \/ \E i \in DOMAIN Items : Mkdir(i)
    \/ \E i \in DOMAIN Items, proc \in ToolProcs : RunTool(i, proc)
    \/ Finish

SpecPre == Init /\ [][NextPre]_vars

\* ------------------------------------------------------------------------
\* fab.steps.psyclone._gen_prebuild_hash
\* ------------------------------------------------------------------------
Kernels == {"kernel1", "kernel2"}
FileHashes == {234, 235}
KernelHashes == {345, 346, 456}
\* file_checksum of the file the transformation script returns; the
\* checksum of an empty file is 0
ScriptHashes == {0, 1000}
CliArgs == {<<>>, <<"--foo">>}

MissingDependencyHash == "MissingDependencyHash"

\* A checksum that is the same for every argument list.
string_checksum_const(cli_args) == 223132457

\* string_checksum(str(mp_payload.cli_args)): the crc32 of the text of the
\* list, "[]" and "['--foo']"
string_checksum(cli_args) ==
    CASE cli_args = <<>> -> 223132457
      [] cli_args = <<"--foo">> -> 155621495
      [] OTHER -> 0

\* A combination that weighs each hash by its place in the iteration.
RECURSIVE sum_weighted(_, _)
sum_weighted(order, all_kernel_hashes) ==
    IF order = <<>> THEN 0
    ELSE Len(order) * all_kernel_hashes[Head(order)]
         + sum_weighted(Tail(order), all_kernel_hashes)

\* the sum of the hashes of the kernels in kernel_deps, taken in the order
\* in which the set is iterated
RECURSIVE sum_hashes(_, _)
sum_hashes(order, all_kernel_hashes) ==
    IF order = <<>> THEN 0
    ELSE all_kernel_hashes[Head(order)]
         + sum_hashes(Tail(order), all_kernel_hashes)

\* The names a sequence holds.
names(order) == {order[i] : i \in DOMAIN order}

\* transformation_script is <<>> when there is none and <<h>> when the
\* file it returns has checksum h
transformation_script_hash(transformation_script) ==
    IF transformation_script = <<>> THEN 0 ELSE transformation_script[1]

\* _gen_prebuild_hash(x90_file, mp_payload): file_hash of the analysed
\* x90, kernel_deps in iteration order, all_kernel_hashes (hashes), the
\* transformation script and the cli_args of the payload
_gen_prebuild_hash(file_hash, order, hashes, script, cli_args) ==
    IF \E k \in names(order) : k \notin DOMAIN hashes
    THEN [raised |-> MissingDependencyHash, value |-> 0]
    ELSE [raised |-> None,
          value |-> file_hash
                    + sum_hashes(order, hashes)
                    + transformation_script_hash(script)
                    + string_checksum(cli_args)]

GenPrebuildHash(file_hash, order, hashes, script, cli_args) ==
    /\ LET r == _gen_prebuild_hash(file_hash, order, hashes, script,
                                   cli_args)
       IN last' = Result("_gen_prebuild_hash", 0, r.raised, <<>>, r.value,
                         [file_hash |-> file_hash,
                          kernel_deps |-> order,
                          all_kernel_hashes |-> hashes,
                          transformation_script |-> script,
                          cli_args |-> cli_args])
    /\ UNCHANGED <<heap, env, workers, repo, lifecycle, pp, psyclone, held>>

\* The iteration orders of the subsets of the kernel names.
KernelDeps == {<<>>, <<"kernel1">>, <<"kernel2">>,
               <<"kernel1", "kernel2">>, <<"kernel2", "kernel1">>}
AllKernelHashes ==
    [Kernels -> KernelHashes] \cup [{"kernel2"} -> KernelHashes]
Scripts == {<<>>} \cup {<<h>> : h \in ScriptHashes}

NextHash ==
    \E file_hash \in FileHashes, order \in KernelDeps,
       all_kernel_hashes \in AllKernelHashes,
       transformation_script \in Scripts, cli_args \in CliArgs :
       GenPrebuildHash(file_hash, order, all_kernel_hashes,
                       transformation_script, cli_args)

SpecHash == Init /\ [][NextHash]_vars

\* ------------------------------------------------------------------------
\* fab.tools.psyclone.Psyclone
\* ------------------------------------------------------------------------
\* version > (2, 5, 0): Python compares tuples place by place, and a tuple
\* is greater than each of its proper prefixes
RECURSIVE tuple_greater(_, _)
tuple_greater(a, b) ==
    IF a = <<>> THEN FALSE
    ELSE IF b = <<>> THEN TRUE
    ELSE IF Head(a) # Head(b) THEN Head(a) > Head(b)
    ELSE tuple_greater(Tail(a), Tail(b))

\* What the installed psyclone does when it is probed: whether it can be
\* executed, the version its output names (<<>> when the output names
\* none), and whether it rejects "-api nemo" as an unsupported API.
PsycloneProbe(executed, version, nemo_unsupported) ==
    [executed |-> executed, version |-> version,
     nemo_unsupported |-> nemo_unsupported]

\* Psyclone.check_available
check_available(p, probe) ==
    IF ~probe.executed \/ probe.version = <<>>
    THEN [value |-> "False", _version |-> p._version]
    ELSE [value |-> "True",
          _version |-> IF probe.version = <<2, 5, 0>>
                          /\ probe.nemo_unsupported
                       THEN <<2, 5, 0, 1>>
                       ELSE probe.version]

\* Tool.is_available of the Psyclone tool: the first access calls
\* check_available, later ones return what the first one found
Psyclone_is_available(p, probe) ==
    IF p._is_available # None
    THEN [psyclone |-> p, value |-> p._is_available]
    ELSE LET r == check_available(p, probe)
         IN [psyclone |-> [_is_available |-> r.value,
                           _version |-> r._version],
             value |-> r.value]

\* api.lower()
lower(api) == IF api = "NEMO" THEN "nemo" ELSE api

\* if api and api.lower() == "nemo": api = ""
without_nemo(api) == IF api # "" /\ lower(api) = "nemo" THEN "" ELSE api

\* A check of the arguments that accepts a transformed_file with an api.
check_arguments_lenient(api, psy_file, alg_file, transformed_file) ==
    IF api # ""
    THEN IF psy_file = ""
         THEN <<"PSyclone called with api '", api,
                "', but no psy_file is specified.">>
         ELSE IF alg_file = ""
         THEN <<"PSyclone called with api '", api,
                "', but no alg_file is specified.">>
         ELSE <<>>
    ELSE IF psy_file # ""
         THEN <<"PSyclone called without api, but psy_file is specified.">>
         ELSE IF alg_file # ""
         THEN <<"PSyclone called without api, but alg_file is specified.">>
         ELSE IF transformed_file = ""
         THEN <<"PSyclone called without api, but transformed_file is ",
                "not specified.">>
         ELSE <<>>

\* Psyclone.process, the checks of the arguments: the text of the
\* RuntimeError, <<>> when none is raised.  api is the api after nemo has
\* been replaced; a file that is not given is "".
check_arguments(api, psy_file, alg_file, transformed_file) ==
    IF api # ""
    THEN IF psy_file = ""
         THEN <<"PSyclone called with api '", api,
                "', but no psy_file is specified.">>
         ELSE IF alg_file = ""
         THEN <<"PSyclone called with api '", api,
                "', but no alg_file is specified.">>
         ELSE IF transformed_file # ""
         THEN <<"PSyclone called with api '", api,
                "' and transformed_file.">>
         ELSE <<>>
    ELSE IF psy_file # ""
         THEN <<"PSyclone called without api, but psy_file is specified.">>
         ELSE IF alg_file # ""
         THEN <<"PSyclone called without api, but alg_file is specified.">>
         ELSE IF transformed_file = ""
         THEN <<"PSyclone called without api, but transformed_file is ",
                "not specified.">>
         ELSE <<>>

\* mapping.get(api, api) with the mapping from old names to new names
new_name(api) ==
    CASE api = "dynamo0.3" -> "lfric"
      [] api = "gocean1.0" -> "gocean"
      [] OTHER -> api

\* mapping.get(api, api) with the mapping from new names to old names
old_name(api) ==
    CASE api = "lfric" -> "dynamo0.3"
      [] api = "gocean" -> "gocean1.0"
      [] OTHER -> api

\* Parameters that name the api the way every version is given it.
api_parameters_old(version, api, psy_file, alg_file, transformed_file) ==
    IF api # ""
    THEN <<"-api", old_name(api), "-opsy", psy_file, "-oalg", alg_file>>
    ELSE <<"-api", "nemo", "-opsy", transformed_file>>

\* Psyclone.process, the parameters for the api and the output files
api_parameters(version, api, psy_file, alg_file, transformed_file) ==
    IF api # ""
    THEN IF tuple_greater(version, <<2, 5, 0>>)
         THEN <<"--psykal-dsl", new_name(api),
                "-opsy", psy_file, "-oalg", alg_file>>
         ELSE <<"-api", old_name(api), "-opsy", psy_file, "-oalg", alg_file>>
    ELSE IF tuple_greater(version, <<2, 5, 0>>)
         THEN <<"-o", transformed_file>>
         ELSE <<"-api", "nemo", "-opsy", transformed_file>>

\* sum([['-d', str(k)] for k in kernel_roots], [])
RECURSIVE roots_with_dash_d(_)
roots_with_dash_d(kernel_roots) ==
    IF kernel_roots = <<>> THEN <<>>
    ELSE <<"-d", Head(kernel_roots)>> \o roots_with_dash_d(Tail(kernel_roots))

\* Psyclone.process after the availability test.  a holds the arguments:
\* a file or api that is not given is "", transformation_script is <<>>
\* without a script and <<path>> with one that returns path ("" for a
\* script that returns nothing); rc is the exit code of psyclone.
process_available(p, a, rc) ==
    LET api == without_nemo(a.api)
        error == check_arguments(api, a.psy_file, a.alg_file,
                                 a.transformed_file)
        script == a.transformation_script
        parameters ==
            api_parameters(p._version, api, a.psy_file, a.alg_file,
                           a.transformed_file)
            \o <<"-l", "all">>
            \o (IF script # <<>> /\ script[1] # ""
                THEN <<"-s", script[1]>> ELSE <<>>)
            \o a.additional_parameters
            \o roots_with_dash_d(a.kernel_roots)
            \o <<a.x90_file>>
    IN IF error # <<>>
       THEN [raised |-> "RuntimeError", message |-> error,
             command |-> <<>>, script_called |-> FALSE, ran |-> FALSE]
       ELSE [raised |-> IF rc = 0 THEN None ELSE "RuntimeError",
             message |-> <<>>,
             command |-> <<"psyclone">> \o parameters,
             script_called |-> script # <<>>, ran |-> TRUE]

\* Psyclone.process
process(p, a, rc) ==
    IF p._is_available # "True"
    THEN [raised |-> "RuntimeError",
          message |-> <<"PSyclone is not available.">>,
          command |-> <<>>, script_called |-> FALSE, ran |-> FALSE]
    ELSE process_available(p, a, rc)

\* psyclone.is_available
PsycloneIsAvailable(probe) ==
    /\ LET r == Psyclone_is_available(psyclone, probe)
       IN /\ psyclone' = r.psyclone
          /\ last' = Result("is_available", 0, None, <<>>, r.value, probe)
    /\ UNCHANGED <<heap, env, workers, repo, lifecycle, pp, held>>

\* psyclone.process(config, x90_file, ...)
Process(probe, a, rc) ==
    /\ LET avail == Psyclone_is_available(psyclone, probe)
           r == process(avail.psyclone, a, rc)
       IN /\ psyclone' = avail.psyclone
          /\ last' = Result("process", 0, r.raised, r.command,
                            [message |-> r.message,
                             script_called |-> r.script_called,
                             ran |-> r.ran,
                             _version |-> avail.psyclone._version,
                             is_available |-> avail.value],
                            a)
    /\ UNCHANGED <<heap, env, workers, repo, lifecycle, pp, held>>

PsycloneVersions == {<<2, 4, 0>>, <<2, 5, 0>>, <<2, 5, 0, 1>>, <<3, 0>>}
PsycloneProbes ==
    {PsycloneProbe(FALSE, <<>>, FALSE), PsycloneProbe(TRUE, <<>>, FALSE)}
    \cup {PsycloneProbe(TRUE, v, u) :
            v \in PsycloneVersions, u \in BOOLEAN}
\* The probes that matter in a state: none once the answer is cached.
ProbesNow ==
    IF psyclone._is_available = None THEN PsycloneProbes
    ELSE {PsycloneProbe(FALSE, <<>>, FALSE)}
Apis == {"", "nemo", "NEMO", "lfric", "dynamo0.3", "gocean1.0", "gocean"}
ProcessArgs ==
    {a \in [api : Apis, psy_file : {"", "psy_file"},
            alg_file : {"", "alg_file"},
            transformed_file : {"", "transformed_file"},
            transformation_script : {<<>>, <<"">>, <<"script_called">>},
            additional_parameters : {<<>>, <<"-c", "psyclone.cfg">>},
            kernel_roots : {<<>>, <<"root1", "root2">>},
            x90_file : {"x90_file"}] :
       a.kernel_roots = <<>> => a.additional_parameters = <<>>}

NextPsyclone ==
    \/ \E probe \in ProbesNow : PsycloneIsAvailable(probe)
    \/ \E probe \in ProbesNow, a \in ProcessArgs, rc \in ReturnCodes :
          Process(probe, a, rc)

SpecPsyclone == Init /\ [][NextPsyclone]_vars

\* ========================================================================
\* Properties
\* ========================================================================
WrappedBy(t) == heap[t]._compiler

RECURSIVE LibFlagsOf(_, _)
LibFlagsOf(lf, libs) ==
    IF libs = <<>> THEN <<>>
    ELSE lf[Head(libs)] \o LibFlagsOf(lf, Tail(libs))

\* C1 (as stated): a link that spawns the linker passes, in this order, the
\* wrapped compiler's flags, the linker's own flags (the LDFLAGS tokens
\* included), the OpenMP flag iff openmp, the input files sorted by path
\* string, pre_lib_flags, the flags of each requested library in the
\* caller's order, post_lib_flags, the output flag and the output path.
C1_LinkCommandOrder ==
    (last.op = "link" /\ last.raised = None) =>
        LET l == last.tool
            c == WrappedBy(l)
        IN last.command =
               <<heap[l].exec_name>>
               \o heap[c]._flags
               \o heap[l]._flags
               \o (IF last.args.openmp THEN <<"-fopenmp">> ELSE <<>>)
               \o sorted(last.args.input_files)
               \o heap[l]._pre_lib_flags
               \o LibFlagsOf(heap[l]._lib_flags, last.args.libs)
               \o heap[l]._post_lib_flags
               \o <<"-o", OutFile>>

LinkerRegions(h, l) ==
    <<h[l]._flags, h[l]._pre_lib_flags, h[l]._lib_flags,
      h[l]._post_lib_flags>>

HasUnknownLib(h, l, libs) ==
    \E i \in DOMAIN libs : libs[i] \notin DOMAIN h[l]._lib_flags

\* C2: a link that names a library missing from the linker's library map
\* raises the unknown-library error, spawns no process, and leaves the
\* linker's own flags, pre_lib_flags, library map and post_lib_flags as they
\* were, wherever the missing name stands in libs.
C2_UnknownLibraryFailsCleanly ==
    [][(last'.op = "link"
        /\ HasUnknownLib(heap, last'.tool, last'.args.libs))
       => /\ last'.raised = UnknownLibraryError
          /\ last'.command = <<>>
          /\ LinkerRegions(heap', last'.tool)
                 = LinkerRegions(heap, last'.tool)]_vars

\* C2 witness: a link fails on a missing library that stands second in
\* libs, after a library whose flags were found.
C2_Witness ==
    /\ last.op = "link"
    /\ last.raised = UnknownLibraryError
    /\ Len(last.args.libs) = 2
    /\ last.args.libs[1] \in DOMAIN heap[last.tool]._lib_flags
    /\ last.args.libs[2] \notin DOMAIN heap[last.tool]._lib_flags

\* C3 (as stated): whether a wrapper's compile_file returns or raises, the
\* wrapped compiler's exec_name after the call is its exec_name before the
\* call.
C3_ExecNameRestored ==
    [][(last'.op = "compile_file" /\ IsWrapper(heap[last'.tool]))
       => heap'[WrappedBy(last'.tool)].exec_name
              = heap[WrappedBy(last'.tool)].exec_name]_vars

\* C4 (as stated): a wrapper's is_available is true only if the wrapped
\* compiler is available, the wrapper's own probe succeeded and both report
\* the same version.
C4_AvailableOnlyIfConsistent ==
    (last.op = "is_available" /\ IsWrapper(heap[last.tool])
     /\ last.value = "True") =>
        /\ heap[WrappedBy(last.tool)]._is_available = "True"
        /\ heap[last.tool]._version # 0
        /\ heap[last.tool]._version = heap[WrappedBy(last.tool)]._version

\* C5 (as stated): a read of is_available returns what the read of the same
\* tool before it returned.
C5_AvailabilityStable ==
    [][(last.op = "is_available" /\ last'.op = "is_available"
        /\ last'.tool = last.tool)
       => last'.value = last.value]_vars

\* C6 (as stated, for calls that return normally): with two workers in
\* compile_file through different wrappers of one compiler, each delegated
\* compile runs under the executable name of the wrapper that issued it, and
\* once both calls have returned the compiler has its original exec_name.
C6_NoLeakUnderInterleaving ==
    (/\ call["w1"].wrapper # 0 /\ call["w2"].wrapper # 0
     /\ call["w1"].wrapper # call["w2"].wrapper
     /\ WrappedBy(call["w1"].wrapper) = WrappedBy(call["w2"].wrapper))
    => /\ \A w \in Workers :
            ran[w] # None => ran[w] = heap[call[w].wrapper].exec_name
       /\ (\A w \in Workers : pc[w] = "returned")
            => heap[WrappedBy(call["w1"].wrapper)].exec_name
                   = Heap0[WrappedBy(call["w1"].wrapper)].exec_name

Wrappers(h) == {t \in DOMAIN h : IsWrapper(h[t])}

C8_SyntaxOnlyRejected ==
    /\ (last.op = "compile_file" /\ last.args.syntax_only = "True"
        /\ category(heap, last.tool) # FORTRAN_COMPILER)
       => /\ last.raised \in {SyntaxOnlyError, "UnsupportedOperation"}
          /\ last.command = <<>>
    /\ (last.op = "has_syntax_only"
        /\ category(heap, last.tool) # FORTRAN_COMPILER)
       => last.raised = NoSyntaxOnlyError
    /\ (last.op = "set_module_output_path"
        /\ category(heap, last.tool) # FORTRAN_COMPILER)
       => last.raised = NoModuleOutputError

\* C8 witness: syntax_only=True through the mpicc wrapper of gcc was
\* rejected.
C8_Witness ==
    /\ last.op = "compile_file"
    /\ last.tool = mpicc
    /\ last.args.syntax_only = "True"
    /\ last.raised = SyntaxOnlyError

RegisteredCompilers ==
    {t \in DOMAIN heap :
        /\ heap[t].cls # "Linker"
        /\ \E c \in {C_COMPILER, FORTRAN_COMPILER} :
              \E i \in DOMAIN repo[c] : repo[c][i] = t}

\* C9 (as stated): every registered compiler has exactly one companion
\* linker in the Linker category, named linker-<compiler name>.
C9_OneCompanionLinker ==
    \A t \in RegisteredCompilers :
        Cardinality({i \in DOMAIN repo[LINKER] :
                        /\ heap[repo[LINKER][i]].name
                               = <<"linker">> \o heap[t].name
                        /\ WrappedBy(repo[LINKER][i]) = t}) = 1

\* C10 (as stated): Linker(c) has category LINKER, name linker-<c's name>,
\* c's exec_name and c's suite.
C10_LinkerIdentity ==
    \A l \in Linkers(heap) :
        /\ category(heap, l) = LINKER
        /\ heap[l].name = <<"linker">> \o heap[WrappedBy(l)].name
        /\ heap[l].exec_name = heap[WrappedBy(l)].exec_name
        /\ suite(heap, l) = suite(heap, WrappedBy(l))

\* C12: in every state the registry reaches by add_tool and
\* set_default_compiler_suite calls, get_tool(c, t.name) for a tool t stored
\* under category c returns a tool whose name is t.name and whose category
\* is c.
C12_LookupFindsStoredTool ==
    \A c \in Category : \A i \in DOMAIN repo[c] :
        LET t == repo[c][i]
            r == get_tool(heap, repo, c, heap[t].name)
        IN /\ r.raised = None
           /\ heap[r.value].name = heap[t].name
           /\ category(heap, r.value) = c

\* C12 witness: after a reordering by suite, a lookup returned a tool that
\* is not the first of its category.
C12_Witness ==
    /\ last.op = "get_tool"
    /\ last.raised = None
    /\ repo[last.args.category][1] # last.value
    /\ suite(heap, repo[last.args.category][1]) = "intel-classic"
    /\ heap[last.value].name = last.args.name

NamesIn(tools) == {heap[tools[i]].name : i \in DOMAIN tools}

\* C13 (as stated): get_tool on a category with no entries raises the
\* unknown-category failure, on a category with entries of which none has
\* the name the unknown-tool failure, and the two are of different kinds.
C13_DistinctLookupFailures ==
    (last.op = "get_tool" /\ last.args.category \in Category) =>
        LET tools == repo[last.args.category]
        IN /\ tools = <<>> => last.raised = UnknownCategoryError
           /\ (tools # <<>> /\ last.args.name \notin NamesIn(tools))
                  => last.raised = UnknownToolError
           /\ ExceptionType(UnknownCategoryError)
                  # ExceptionType(UnknownToolError)

MpiTools(tools, want) ==
    {i \in DOMAIN tools : mpi(heap, tools[i]) = (want = "True")}

\* C14: get_default(category, mpi) for a compiler or linker category and a
\* boolean mpi returns the first tool of the category's list whose mpi is
\* the requested one, and raises the no-matching-tool error when the list
\* has none.
C14_DefaultMatchesMpi ==
    (/\ last.op = "get_default"
     /\ last.args.category \in {C_COMPILER, FORTRAN_COMPILER, LINKER}
     /\ last.args.mpi \in {"True", "False"}) =>
        LET tools == repo[last.args.category]
            hits == MpiTools(tools, last.args.mpi)
        IN IF hits = {}
           THEN last.raised = NoMpiMatchError
           ELSE /\ last.raised = None
                /\ \E i \in hits : /\ last.value = tools[i]
                                    /\ \A j \in hits : i <= j

\* C14 witness: an MPI compiler was asked for and the one returned stands
\* behind a compiler without MPI.
C14_Witness ==
    /\ last.op = "get_default"
    /\ last.args = [category |-> C_COMPILER, mpi |-> "True"]
    /\ last.raised = None
    /\ mpi(heap, last.value)
    /\ ~mpi(heap, repo[C_COMPILER][1])

InSuite(tools, s) == SelectSeq(tools, LAMBDA t : suite(heap, t) = s)
NotInSuite(tools, s) == SelectSeq(tools, LAMBDA t : suite(heap, t) # s)

\* C16: a set_default_compiler_suite(suite) that returns leaves each of the
\* Fortran-compiler, C-compiler and Linker lists as its previous tools of
\* the suite, in their previous order, followed by its previous other
\* tools, in their previous order.
C16_StablePartition ==
    [][(last'.op = "set_default_compiler_suite" /\ last'.raised = None)
       => \A i \in DOMAIN SuiteCategories :
             LET c == SuiteCategories[i]
             IN repo'[c] = InSuite(repo[c], last'.args)
                              \o NotInSuite(repo[c], last'.args)]_vars

\* C16 witness: a call returned with two tools of the suite in front of two
\* tools of another suite.
C16_Witness ==
    /\ last.op = "set_default_compiler_suite"
    /\ last.raised = None
    /\ Len(InSuite(repo[C_COMPILER], last.args)) >= 2
    /\ Len(NotInSuite(repo[C_COMPILER], last.args)) >= 2

\* C17: from every state of the registry, a second
\* set_default_compiler_suite with the same suite leaves every list as the
\* first left it and ends as the first ended, and after a call that
\* returned, the first tool of each of the three lists that has one is of
\* the suite.
C17_SuiteIdempotent ==
    \A s \in Suites :
        LET r1 == set_default_compiler_suite(heap, repo, s)
            r2 == set_default_compiler_suite(heap, r1.repo, s)
        IN /\ r2 = r1
           /\ r1.raised = None =>
                 \A i \in DOMAIN SuiteCategories :
                    LET tools == r1.repo[SuiteCategories[i]]
                    IN tools # <<>> => suite(heap, tools[1]) = s

\* C17 witness: a call returned on a C-compiler list that holds tools of
\* two suites.
C17_Witness ==
    /\ last.op = "set_default_compiler_suite"
    /\ last.raised = None
    /\ InSuite(repo[C_COMPILER], last.args) # <<>>
    /\ NotInSuite(repo[C_COMPILER], last.args) # <<>>

LacksSuite(tools, s) == InSuite(tools, s) = <<>>

\* C18 (as stated): set_default_compiler_suite(suite) raises the
\* suite-not-found error whenever one of the three lists holds no tool of
\* the suite, an empty list included.
C18_RaisesWhenSuiteMissing ==
    [][(/\ last'.op = "set_default_compiler_suite"
        /\ \E i \in DOMAIN SuiteCategories :
              LacksSuite(repo[SuiteCategories[i]], last'.args))
       => last'.raised = SuiteNotFoundError]_vars

\* C18 (amended): set_default_compiler_suite(suite) raises the
\* suite-not-found error exactly when one of the three lists is not empty
\* and holds no tool of the suite; an empty list is passed over.
C18_RaisesWhenNonEmptyListLacksSuite ==
    [][last'.op = "set_default_compiler_suite"
       => (last'.raised = SuiteNotFoundError
           <=> \E i \in DOMAIN SuiteCategories :
                  /\ repo[SuiteCategories[i]] # <<>>
                  /\ LacksSuite(repo[SuiteCategories[i]],
                                last'.args))]_vars

\* C18 witness: the call raised on a C-compiler list without a tool of the
\* suite, the Fortran-compiler list having one.
C18_Witness ==
    /\ last.op = "set_default_compiler_suite"
    /\ last.raised = SuiteNotFoundError
    /\ ~LacksSuite(repo[FORTRAN_COMPILER], last.args)
    /\ repo[C_COMPILER] # <<>>
    /\ LacksSuite(repo[C_COMPILER], last.args)

\* C11: add_tool appends the tool to the end of the list of its category,
\* whether or not the tool is available: after every add_tool call on the
\* registry the list of the tool's category is the old list (empty when the
\* category had none) with the tool appended.
C11_AddToolRegistersUnconditionally ==
    [][\A cls \in NtClasses, available \in BOOLEAN :
         NtAddTool(cls, available) =>
           LET cat == NtCategory[cls]
               old == nt.objs[nt._singleton]
               new == nt'.objs[nt'._singleton]
           IN /\ cat \in DOMAIN new
              /\ new[cat] = Append(IF cat \in DOMAIN old THEN old[cat]
                                   ELSE <<>>, cls)]_vars

\* C15: get_default for a compiler or linker category, called without mpi,
\* fails with a RuntimeError whatever the registry holds; for every other
\* category it returns the first tool of the category.
C15_DefaultWithoutMpiFails ==
    last.op = "newtools.get_default" =>
      IF last.args.category \in {C_COMPILER, FORTRAN_COMPILER, LINKER}
      THEN ExceptionType(last.raised) = "RuntimeError"
      ELSE last.args.category \in DOMAIN nt.objs[nt._singleton] =>
             /\ last.raised = None
             /\ last.value = nt.objs[nt._singleton][last.args.category][1]

\* C19: one registry instance exists and it is populated once: no second
\* instance is ever made, no instance is populated twice, and every access
\* that returns hands out the one instance.
C19_OneInstancePopulatedOnce ==
    /\ Len(tr.objs) <= 1
    /\ \A i \in DOMAIN tr.objs : tr.objs[i].populated <= 1
    /\ last.op = "ToolRepository" => last.value = 1
    /\ Len(nt.objs) <= 1
    /\ last.op = "newtools.get" /\ last.raised = None => last.value = 1
    /\ last.op = "newtools.ToolRepository" /\ last.raised = None =>
         last.value = 1


\* C20: when two threads make the first access at the same time, no second
\* instance is made, no instance is populated twice, and when both calls
\* have returned both threads hold the same, populated instance.
C20_ConcurrentFirstAccessIsSerialised ==
    /\ Len(tr.objs) <= 1
    /\ \A i \in DOMAIN tr.objs : tr.objs[i].populated <= 1
    /\ (\A t \in Threads : th[t].pc = "done") =>
         /\ th["t1"].self = th["t2"].self
         /\ tr.objs[th["t1"].self].populated = 1


\* What get_lib_flags answers for every library on linker l of heap h.
LibAnswers(h, l) == [lib \in Libs |-> get_lib_flags(h, l, lib)]

\* C21: get_lib_flags(lib) returns the flag list of the most recent
\* add_lib_flags(lib, ...) that no remove_lib_flags(lib) followed, and fails
\* with the unknown-library failure otherwise.  Step by step: add_lib_flags
\* never fails, makes get_lib_flags(lib) return the given flags (also when
\* it replaces an entry, with or without silent_replace) and changes the
\* answer for no other library; remove_lib_flags never fails, makes
\* get_lib_flags(lib) fail with the unknown-library failure (which it
\* already did for an unknown library) and changes the answer for no other
\* library; get_lib_flags reports the current answer; no other step
\* changes an answer.
C21_LibFlagsFollowLastAdd ==
    [][\A l \in Linkers(heap) :
         CASE last'.op = "add_lib_flags" /\ last'.tool = l ->
                /\ last'.raised = None
                /\ \A fl \in LibFlagLists, silent \in BOOLEAN :
                     AddLibFlags(l, last'.args, fl, silent) =>
                       (LibAnswers(heap', l) =
                          [LibAnswers(heap, l) EXCEPT
                             ![last'.args] = [raised |-> None,
                                              value |-> fl]])
           [] last'.op = "remove_lib_flags" /\ last'.tool = l ->
                /\ last'.raised = None
                /\ LibAnswers(heap', l) =
                     [LibAnswers(heap, l) EXCEPT
                        ![last'.args] = [raised |-> UnknownLibraryError,
                                         value |-> <<>>]]
           [] last'.op = "get_lib_flags" /\ last'.tool = l ->
                /\ last'.raised = LibAnswers(heap, l)[last'.args].raised
                /\ last'.value = LibAnswers(heap, l)[last'.args].value
                /\ LibAnswers(heap', l) = LibAnswers(heap, l)
           [] OTHER -> LibAnswers(heap', l) = LibAnswers(heap, l)]_vars

\* A library's flags were just replaced by other flags, with the warning,
\* while the linker knows a second library.
C21_Witness ==
    /\ last.op = "add_lib_flags"
    /\ last.value = TRUE
    /\ DOMAIN heap[last.tool]._lib_flags = Libs
    /\ heap[last.tool]._lib_flags["L1"] # heap[last.tool]._lib_flags["L2"]


\* The orders in which the elements of the list s can be given.
Orders(s) ==
    {[i \in 1..Len(s) |-> s[f[i]]] :
       f \in {g \in [1..Len(s) -> 1..Len(s)] :
                \A i, j \in 1..Len(s) : i # j => g[i] # g[j]}}

\* The input files on a command line, in the order they have there.
InputsOf(command) == SelectSeq(command, LAMBDA x : x \in Files)

\* C22: the command of Linker.link does not depend on the order in which
\* the input files are given: every permutation of the input files of a
\* link call gives the outcome and argument list the call had, and on the
\* command line the input files stand in lexicographic order of their path
\* strings.
C22_LinkIgnoresInputOrder ==
    [][last'.op = "link" =>
         LET input_files == last'.args.input_files
             given == InputsOf(last'.command)
         IN /\ \A p \in Orders(input_files) \ {input_files} :
                 LET r == link(heap, last'.tool, p, OutFile,
                               last'.args.openmp, last'.args.libs, 0)
                 IN /\ r.raised = last'.raised
                    /\ r.command = last'.command
            /\ last'.raised = None =>
                 /\ given \in Orders(input_files)
                 /\ \A i, j \in 1..Len(given) :
                      i < j => ~LexLess(Codes[given[j]],
                                        Codes[given[i]])]_vars

\* A link call that was given b.o before ab.o has spawned its command.
C22_Witness ==
    /\ last.op = "link"
    /\ last.raised = None
    /\ last.args.input_files = <<"b.o", "ab.o">>
    /\ InputsOf(last.command) = <<"ab.o", "b.o">>


\* How often the token tok stands in the list s.
Count(tok, s) == Len(SelectSeq(s, LAMBDA x : x = tok))

\* C23: the tokens LDFLAGS held when a linker was made stand exactly once
\* in the flags the linker shows (linker.flags) and exactly once on every
\* command line it spawns.
C23_LdflagsOnceInFlags ==
    \A l \in Linkers(heap) :
       \A k \in DOMAIN split(env.LDFLAGS) :
          /\ Count(split(env.LDFLAGS)[k], flags(heap, l)) = 1
          /\ last.op = "link" /\ last.tool = l /\ last.raised = None =>
               Count(split(env.LDFLAGS)[k], last.command) = 1


\* C30: run_command returns the decoded captured standard output when the
\* process exits with code 0 and output is captured, returns nothing when
\* output is not captured, and otherwise (non-zero exit, or the executable
\* cannot be spawned) raises one structured failure, a RuntimeError whose
\* text carries the return code and the captured stdout and stderr.  Stated
\* for output that can be decoded.
C30_RunCommandOutcome ==
    last.op = "run_command" =>
      LET proc == last.args.proc
          captured == last.args.capture_output
      IN Undecodable \notin {proc.stdout, proc.stderr} =>
           IF proc.found /\ proc.returncode = 0
           THEN /\ last.raised = None
                /\ last.value = IF captured THEN proc.stdout ELSE None
           ELSE /\ last.raised = RuntimeError
                /\ proc.found =>
                     /\ Count(ToString(proc.returncode), last.command) >= 1
                     /\ captured /\ proc.stdout # "" =>
                          Count(proc.stdout, last.command) >= 1
                     /\ captured /\ proc.stderr # "" =>
                          Count(proc.stderr, last.command) >= 1


\* The items of the current run that ended with an exception.
FailedItems == {i \in DOMAIN Items : pp.it[i].kind = "exception"}

\* C24: a run in which at least one item failed fails as a whole with one
\* aggregate error and leaves the output collection of the artefact store
\* as it was; no step before the end of a run writes the collection.
C24_FailedRunPublishesNothing ==
    [][/\ (pp.pc = "running" /\ pp'.pc # "published") =>
            (pp'.store = pp.store)
       /\ (pp.pc = "running" /\ pp'.pc # "running") =>
            (IF FailedItems # {}
             THEN pp'.pc = "failed" /\ pp'.error # <<>>
             ELSE pp'.pc = "published" /\ pp'.error = <<>>)]_vars

\* A run failed after an earlier run had published, with one item failed
\* and the others successful.
C24_Witness ==
    /\ pp.pc = "failed"
    /\ pp.store.set
    /\ Cardinality(FailedItems) = 1
    /\ pp.it[3].kind = "path"

\* The list part stands in the list msg, as one piece.
Contains(msg, part) ==
    \E k \in 1..(Len(msg) - Len(part) + 1) :
       SubSeq(msg, k, k + Len(part) - 1) = part

\* C25: the aggregate error of a failed run carries the number of failed
\* items and the error text of every one of them.
C25_AggregateListsEveryFailure ==
    pp.pc = "failed" =>
      /\ Len(pp.error) >= 2
      /\ pp.error[Len(pp.error) - 1] = ToString(Cardinality(FailedItems))
      /\ \A i \in FailedItems : Contains(pp.error, pp.it[i].message)

\* A run failed with two failed items whose error texts differ.
C25_Witness ==
    /\ pp.pc = "failed"
    /\ \E i, j \in FailedItems :
          /\ i < j
          /\ SubSeq(pp.it[i].message, 4, Len(pp.it[i].message))
               # SubSeq(pp.it[j].message, 4, Len(pp.it[j].message))

\* C26: a failure of one item stops no sibling: the step that records the
\* outcome of an item changes no other item, and the run decides whether to
\* fail only when every submitted item has ended with an output path or
\* with a captured exception, in a parallel and in a serial pool.
C26_FailureAbortsNoSibling ==
    [][/\ \A i \in DOMAIN Items :
            (pp.pc = "running" /\ pp'.pc = "running"
                               /\ pp'.it[i] # pp.it[i]) =>
              (\A j \in DOMAIN Items \ {i} : pp'.it[j] = pp.it[j])
       /\ (pp.pc = "running" /\ pp'.pc # "running") =>
            (\A i \in DOMAIN Items :
                /\ pp.it[i].pc = "done"
                /\ pp.it[i].kind \in {"path", "exception"}
                /\ pp'.it[i] = pp.it[i])]_vars

\* A serial run has ended in which the first item failed and the last item
\* was still given to the tool, and succeeded.
C26_Witness ==
    /\ pp.pc = "failed"
    /\ ~pp.multiprocessing
    /\ pp.it[1].kind = "exception"
    /\ pp.it[3].kind = "path"
    /\ 3 \in pp.spawned

\* C27: after a fully successful run the output collection holds exactly
\* one output path per item, in the order in which the items were
\* submitted, whatever the order in which the workers finished them.
C27_PublishedInSubmissionOrder ==
    pp.pc = "published" =>
      /\ pp.store.set
      /\ pp.store.paths = [i \in DOMAIN Items |-> output_fpath[i]]

\* A run has published whose last item was finished first.
C27_Witness ==
    /\ pp.pc = "published"
    /\ pp.multiprocessing
    /\ pp.completed = <<3, 2, 1>>

\* C28: while reuse is enabled and the output file of an unfinished item
\* exists, no step spawns a subprocess for the item, and the step that
\* handles the item ends it as a success with the existing output path.
C28_ReuseSpawnsNothing ==
    [][\A i \in DOMAIN Items :
         (pp.pc = "running" /\ pp'.pc = "running"
                            /\ pp.it[i].pc # "done"
                            /\ pp.reuse_artefacts
                            /\ output_fpath[i] \in pp.files) =>
           (/\ i \notin pp'.spawned
            /\ (pp'.it[i] # pp.it[i]) =>
                 (pp'.it[i] = [pc |-> "done", kind |-> "path",
                               path |-> output_fpath[i],
                               message |-> <<>>]))]_vars

\* In a run with reuse the first item was skipped, its output being there,
\* while the second was given to the tool.
C28_Witness ==
    /\ pp.pc = "running"
    /\ pp.reuse_artefacts
    /\ pp.it[1].kind = "path"
    /\ 1 \notin pp.spawned
    /\ 2 \in pp.spawned

\* C29: when the tool is invoked for an item the parent directory of its
\* output path exists, and creating a directory that exists already (made
\* by an earlier run, or by another worker after this worker's test) is no
\* error: the item goes on to its command and no directory is lost.
C29_ParentExistsBeforeTool ==
    [][\A i \in DOMAIN Items :
         /\ (i \in pp'.spawned \ pp.spawned) => (parent[i] \in pp.dirs)
         /\ (pp.pc = "running" /\ pp'.pc = "running"
                               /\ pp.it[i].pc = "mkdir"
                               /\ pp'.it[i] # pp.it[i]) =>
              (/\ pp'.it[i].pc = "command"
               /\ parent[i] \in pp'.dirs
               /\ pp.dirs \subseteq pp'.dirs)]_vars

\* Two workers found the directory missing; one has made it and run the
\* tool, the other is about to make it again.
C29_Witness ==
    /\ pp.it[1].pc = "mkdir"
    /\ parent[1] \in pp.dirs
    /\ 2 \in pp.spawned
    /\ pp.runs = 1

\* The inputs of a fingerprint computation other than the order in which
\* the dependency names are iterated.
SameInputs(a, b) ==
    /\ a.file_hash = b.file_hash
    /\ names(a.kernel_deps) = names(b.kernel_deps)
    /\ a.all_kernel_hashes = b.all_kernel_hashes
    /\ a.transformation_script = b.transformation_script
    /\ a.cli_args = b.cli_args

\* C31: two computations of the prebuild fingerprint with the same file
\* hash, dependency names, name to hash mapping, script hash and argument
\* list have the same outcome and the same integer, in whatever order the
\* dependency names are iterated.
C31_FingerprintDeterministic ==
    [][(/\ last.op = "_gen_prebuild_hash"
        /\ last'.op = "_gen_prebuild_hash"
        /\ SameInputs(last.args, last'.args))
       => (/\ last'.raised = last.raised
           /\ last'.value = last.value)]_vars

\* The fingerprint of the unit test, 223133492 plus the script hash, reached
\* with kernel2 iterated before kernel1.
C31_Witness ==
    /\ last.op = "_gen_prebuild_hash"
    /\ last.args.file_hash = 234
    /\ last.args.kernel_deps = <<"kernel2", "kernel1">>
    /\ last.raised = None
    /\ last.args.all_kernel_hashes["kernel1"] = 345
    /\ last.args.all_kernel_hashes["kernel2"] = 456
    /\ last.args.transformation_script = <<1000>>
    /\ last.args.cli_args = <<>>
    /\ last.value = 223133492 + 1000

\* The dependency names whose hash differs between two mappings over the
\* same names.
ChangedHashes(f, g) == {k \in DOMAIN f : f[k] # g[k]}

\* Two fingerprint computations that differ in nothing but the named
\* input; the iteration order is the same in both.
OnlyDiffers(a, b, field) ==
    /\ a[field] # b[field]
    /\ \A other \in {"file_hash", "kernel_deps", "all_kernel_hashes",
                     "transformation_script", "cli_args"} \ {field} :
          a[other] = b[other]

\* C32: of two computations of the prebuild fingerprint that differ in one
\* input only, the fingerprints differ: by the difference of the file
\* hashes, by the difference of the one changed hash of a dependency in
\* the dependency set, by the difference of the script hashes where no
\* script counts as 0, and in some way for two argument lists.
C32_OneChangedInputChangesFingerprint ==
    [][(/\ last.op = "_gen_prebuild_hash"
        /\ last'.op = "_gen_prebuild_hash"
        /\ last.raised = None
        /\ last'.raised = None)
       => LET a == last.args
              b == last'.args
          IN /\ OnlyDiffers(a, b, "file_hash")
                => last'.value - last.value = b.file_hash - a.file_hash
             /\ (/\ OnlyDiffers(a, b, "all_kernel_hashes")
                 /\ DOMAIN a.all_kernel_hashes = DOMAIN b.all_kernel_hashes)
                => \A k \in names(a.kernel_deps) :
                      ChangedHashes(a.all_kernel_hashes,
                                    b.all_kernel_hashes) = {k}
                      => last'.value - last.value
                         = b.all_kernel_hashes[k] - a.all_kernel_hashes[k]
             /\ OnlyDiffers(a, b, "transformation_script")
                => last'.value - last.value
                   = transformation_script_hash(b.transformation_script)
                     - transformation_script_hash(a.transformation_script)
             /\ OnlyDiffers(a, b, "cli_args")
                => last'.value # last.value]_vars

\* The fingerprint of the unit test with the hash of kernel1 raised by one
\* and the argument list ['--foo'].
C32_Witness ==
    /\ last.op = "_gen_prebuild_hash"
    /\ last.raised = None
    /\ last.args.file_hash = 234
    /\ names(last.args.kernel_deps) = Kernels
    /\ last.args.all_kernel_hashes["kernel1"] = 346
    /\ last.args.all_kernel_hashes["kernel2"] = 456
    /\ last.args.transformation_script = <<1000>>
    /\ last.args.cli_args = <<"--foo">>
    /\ last.value = 234 + 346 + 456 + 1000 + 155621495

\* A process call whose arguments were rejected: a RuntimeError with a
\* text, psyclone not run, the transformation script not called.
Rejected(r) ==
    /\ r.raised = "RuntimeError"
    /\ r.value.message # <<>>
    /\ ~r.value.ran
    /\ ~r.value.script_called

\* The files an api asks for: psy_file and alg_file, no transformed_file.
DslFiles(a) ==
    a.psy_file # "" /\ a.alg_file # "" /\ a.transformed_file = ""

\* The files a call without api asks for: transformed_file only.
TransformFiles(a) ==
    a.psy_file = "" /\ a.alg_file = "" /\ a.transformed_file # ""

\* C33 as stated: process rejects the call when PSyclone is unavailable,
\* when an api other than the string 'nemo' comes without psy_file and
\* alg_file or with a transformed_file, and when no api comes without
\* transformed_file or with psy_file or alg_file.
C33_AsStated ==
    last.op = "process"
    => /\ last.value.is_available # "True" => Rejected(last)
       /\ (last.args.api \notin {"", "nemo"} /\ ~DslFiles(last.args))
          => Rejected(last)
       /\ (last.args.api = "" /\ ~TransformFiles(last.args))
          => Rejected(last)

\* C33: process rejects the call, before psyclone is run and before the
\* transformation script is called, when PSyclone is unavailable, when an
\* api other than nemo in any letter case comes without psy_file and
\* alg_file or with a transformed_file, and when no api or nemo in any
\* letter case comes without transformed_file or with psy_file or
\* alg_file; every other call runs psyclone.
C33_InconsistentArgumentsRejected ==
    last.op = "process"
    => IF last.value.is_available # "True" THEN Rejected(last)
       ELSE IF lower(last.args.api) \notin {"", "nemo"}
       THEN IF DslFiles(last.args) THEN last.value.ran ELSE Rejected(last)
       ELSE IF TransformFiles(last.args) THEN last.value.ran
       ELSE Rejected(last)

\* An available PSyclone called with api lfric, a psy_file, a
\* transformation script and no alg_file.
C33_Witness ==
    /\ last.op = "process"
    /\ last.value.is_available = "True"
    /\ last.args.api = "lfric"
    /\ last.args.psy_file = "psy_file"
    /\ last.args.alg_file = ""
    /\ last.args.transformation_script = <<"script_called">>
    /\ last.value.message = <<"PSyclone called with api '", "lfric",
                              "', but no alg_file is specified.">>
    /\ Rejected(last)

\* The detected versions that are greater than 2.5.0.
After250(version) == version \in {<<2, 5, 0, 1>>, <<3, 0>>}

\* The api and output arguments C34 names for a version and a call.
ExpectedApiArguments(version, a) ==
    IF a.api \in {"", "nemo", "NEMO"}
    THEN IF After250(version) THEN <<"-o", a.transformed_file>>
         ELSE <<"-api", "nemo", "-opsy", a.transformed_file>>
    ELSE IF After250(version)
    THEN <<"--psykal-dsl",
           CASE a.api = "dynamo0.3" -> "lfric"
             [] a.api = "gocean1.0" -> "gocean"
             [] OTHER -> a.api,
           "-opsy", a.psy_file, "-oalg", a.alg_file>>
    ELSE <<"-api",
           CASE a.api = "lfric" -> "dynamo0.3"
             [] a.api = "gocean" -> "gocean1.0"
             [] OTHER -> a.api,
           "-opsy", a.psy_file, "-oalg", a.alg_file>>

\* The arguments C34 names after the api and output arguments.
ExpectedRemainingArguments(a) ==
    <<"-l", "all">>
    \o (IF a.transformation_script \in {<<>>, <<"">>} THEN <<>>
        ELSE <<"-s", a.transformation_script[1]>>)
    \o a.additional_parameters
    \o (IF a.kernel_roots = <<>> THEN <<>>
        ELSE <<"-d", a.kernel_roots[1], "-d", a.kernel_roots[2]>>)
    \o <<a.x90_file>>

RECURSIVE Base(_, _)
Base(h, t) == IF IsWrapper(h[t]) THEN Base(h, h[t]._compiler) ELSE t

\* The argument list of the last compile: its command without the
\* executable and the flags of the tool.
ArgumentList(r) ==
    SubSeq(r.command, 2 + Len(flags(heap, r.tool)), Len(r.command))

\* The parts of the argument list that C35 names, for the last compile.
FilteredAddFlags(r) ==
    IF heap[Base(heap, r.tool)].cls = "FortranCompiler"
    THEN SelectSeq(r.args.add_flags, LAMBDA f : f # "-J/b")
    ELSE r.args.add_flags
OpenmpPart(r) == IF r.args.openmp THEN <<"-fopenmp">> ELSE <<>>
TailPart(r) ==
    (IF r.args.syntax_only = "True" THEN <<"-fsyntax-only">> ELSE <<>>)
    \o (IF heap[Base(heap, r.tool)].cls = "FortranCompiler"
           /\ heap[Base(heap, r.tool)]._module_output_path # None
        THEN <<"-J", heap[Base(heap, r.tool)]._module_output_path>>
        ELSE <<>>)
    \o <<"a.f90", "-o", "a.o">>

C36_FailedSuiteCallChangesNothing ==
    [][(/\ last'.op = "set_default_compiler_suite"
        /\ last'.raised # None)
       => \A i \in DOMAIN SuiteCategories :
             repo'[SuiteCategories[i]] = repo[SuiteCategories[i]]]_vars

\* C37: every ToolRepository.get() of fab.newtools raises or returns a
\* registry instance, never the marker 'FROM_GET' or another value that is
\* no registry.
C37_GetReturnsRegistryOrRaises ==
    last.op = "newtools.get"
    => (last.raised # None \/ last.value \in DOMAIN nt.objs)

\* C38: what get_lib_flags answers for a library of a linker changes in a
\* step only when the step is an add_lib_flags or a remove_lib_flags of
\* that library on that linker, whatever a caller does to a list it passed
\* in or was handed out; add_pre_lib_flags and add_post_lib_flags change
\* their own region of their linker and nothing else.
C38_LibFlagsChangeOnlyThroughLinker ==
    [][/\ \A l \in Linkers(heap), lib \in Libs :
            get_lib_flags(heap', l, lib) # get_lib_flags(heap, l, lib)
            => /\ last'.op \in {"add_lib_flags", "remove_lib_flags"}
               /\ last'.tool = l
               /\ last'.args = lib
       /\ last'.op = "add_pre_lib_flags"
          => heap' = [heap EXCEPT ![last'.tool]._pre_lib_flags =
                                      heap'[last'.tool]._pre_lib_flags]
       /\ last'.op = "add_post_lib_flags"
          => heap' = [heap EXCEPT ![last'.tool]._post_lib_flags =
                                      heap'[last'.tool]._post_lib_flags]
      ]_vars

\* C39: compile_file on a wrapper of a compiler that is not a Fortran
\* compiler raises the syntax-only error exactly when syntax_only is True;
\* with syntax_only None or False the wrapped compiler is run under the
\* wrapper's executable name with the add_flags of the call.
C39_SyntaxOnlyErrorOnlyWhenTrue ==
    (/\ last.op = "compile_file"
     /\ IsWrapper(heap[last.tool])
     /\ category(heap, last.tool) # FORTRAN_COMPILER)
    => /\ last.raised = SyntaxOnlyError
          <=> last.args.syntax_only = "True"
       /\ last.args.syntax_only # "True"
          => /\ last.command # <<>>
             /\ Head(last.command) = heap[last.tool].exec_name
             /\ \A i \in DOMAIN last.args.add_flags :
                   Count(last.args.add_flags[i], last.command) > 0

============================================================================
